---------------------------- MODULE Spec2Model ----------------------------
(***************************************************************************)
(* The Redfish sensor pipeline of bmcweb (redfish-core/lib/sensors.hpp,    *)
(* thermal.hpp, power.hpp), OCP_CUSTOM_FLAG build: a Thermal or Power GET  *)
(* creates one SensorAsyncResp held by shared_ptr, asks the ObjectMapper   *)
(* for the sensor subtree (GetSubTree), asks every connection found for    *)
(* its managed objects (GetManagedObjects), writes one JSON entry per      *)
(* sensor and ends the response when the last shared_ptr copy is released. *)
(*                                                                         *)
(* A C++ string is a sequence of atoms (pieces of text that the code never *)
(* looks inside): "/xyz/openbmc_project/sensors/fan_tach" is               *)
(* <<"/","xyz","/","openbmc_project","/","sensors","/","fan","_tach">>.    *)
(* Concatenation, prefix test, substring search, rfind and split are the   *)
(* sequence operations on atoms.  JSON objects are functions from keys to  *)
(* values, JSON arrays are sequences.                                      *)
(***************************************************************************)
EXTENDS Integers, Sequences, FiniteSets, TLC

VARIABLES
    req,        \* req[r]: the node ("Thermal", "Power", "none" before arrival) and path parameters
    nodeJson,   \* nodeJson[node]: Node::json, the member document of the Thermal / Power node
    res,        \* res[r]: crow::Response: result code, jsonValue, number of end() calls
    scope,      \* scope[r]: the SensorAsyncResp object: state, chassisId, types, chassisSubNode
    owners,     \* owners[r]: the live shared_ptr<SensorAsyncResp> copies (use_count = Cardinality)
    pending,    \* pending[r]: async_method_call's whose handler has not run yet, in issue order
    current,    \* current[r]: the bus reply handed to the handler that ran last, and
                \* the response as that handler left it when it returned
    delivered,  \* delivered[r]: the calls completed so far, in completion order
    mergedLiterals, \* the build: TRUE when equal string literals share one address
    proj,       \* a call of objectInterfacesToJson on its own: arguments and result
    hreq,       \* a request to a handler that uses AsyncResp: handler, params, body
    hpc,        \* where that handler is: idle, in its loop at an item, returned
    hres,       \* its crow::Response
    hlocal,     \* the handler's local variable asyncResp: a scope number, 0 when null
    hscopes,    \* hscopes[n]: the live shared_ptr copies of the n-th AsyncResp made
    hcalls,     \* async_method_call's whose handler has not run yet
    hcrashed,   \* TRUE when the process has died
    hreads,     \* the variables read after their lifetime ended: <<call name, variable>>
    hfailed,    \* TRUE when a call of the request has completed with an error code
    upload,     \* UploadService: fileUpload, the responses of its requests, the
                \* handlers of the timer that are queued on the event loop
    calc,       \* a call of a function of logservices.hpp or of the version
                \* formatting of Manager::doGet on its own: arguments and result
    hhistory    \* history of the replies given to the handlers of the request:
                \* gravest: the gravest health among the log severities given to
                \*   the Severity handlers
                \* groups: the Asserted values of the reply to getLedGroupIdentify
                \* properties: the property in the reply to the GetAll of the BMC state
                \* entries, replied: the objects of the reply to the GetManagedObjects
                \*   of LogEntry::doGet, and whether it was given

vars == <<req, nodeJson, res, scope, owners, pending, current, delivered,
          mergedLiterals, proj, hreq, hpc, hres, hlocal, hscopes, hcalls, hcrashed,
          hreads, hfailed, hhistory, upload, calc>>

\* the variables of the sensor pipeline, and the others
pipelineVars == <<req, nodeJson, res, scope, owners, pending, current, delivered>>
handlerVars == <<hreq, hpc, hres, hlocal, hscopes, hcalls, hcrashed, hreads, hfailed,
                 hhistory>>
otherVars == <<mergedLiterals, proj, handlerVars, upload, calc>>

----------------------------------------------------------------------------
(* Bounds of the model and the input universe                               *)

MaxSubtree == 2     \* objects in one GetSubTree reply
MaxObjects == 2     \* managed objects the bus returns to one request, over all its replies

Requests == {"req1", "req2"}
SoloRequests == {"req1"}
Nodes == {"Thermal", "Power"}
ConnectionOrder == <<"svcA", "svcB">>    \* the connection names, in std::string order
ConnectionNames == {ConnectionOrder[i] : i \in 1..Len(ConnectionOrder)}
ErrorCodes == {5, 110}
ChassisNames == {<<"chassis0">>}

----------------------------------------------------------------------------
(* Strings                                                                  *)

\* boost::starts_with(s, prefix)
StartsWith(s, prefix) ==
    /\ Len(prefix) <= Len(s)
    /\ SubSeq(s, 1, Len(prefix)) = prefix

\* strstr(hay, needle) != nullptr
StrStr(hay, needle) ==
    \E i \in 1..(Len(hay) + 1) :
        /\ i + Len(needle) - 1 <= Len(hay)
        /\ SubSeq(hay, i, i + Len(needle) - 1) = needle

\* std::string::rfind('/'): 0 stands for npos
RFindSlash(s) ==
    LET hits == {i \in 1..Len(s) : s[i] = "/"}
    IN  IF hits = {} THEN 0 ELSE CHOOSE i \in hits : \A j \in hits : j <= i

RECURSIVE SplitAcc(_, _, _)
SplitAcc(s, cur, acc) ==
    IF s = <<>> THEN Append(acc, cur)
    ELSE IF Head(s) = "/" THEN SplitAcc(Tail(s), <<>>, Append(acc, cur))
    ELSE SplitAcc(Tail(s), Append(cur, Head(s)), acc)

\* boost::algorithm::split(split, objPath, boost::is_any_of("/"))
Split(s) == SplitAcc(s, <<>>, <<>>)

SensorsRoot == <<"/", "xyz", "/", "openbmc_project", "/", "sensors">>
ValueInterface == "xyz.openbmc_project.Sensor.Value"

Temperature == <<"temperature">>
FanTach == <<"fan", "_tach">>
Fan == <<"fan">>
Voltage == <<"voltage">>
PowerType == <<"power">>
Current == <<"current">>

\* the std::initializer_list<const char*> handed to SensorAsyncResp
NodeTypes(node) ==
    IF node = "Thermal"
    THEN << SensorsRoot \o <<"/">> \o FanTach, SensorsRoot \o <<"/">> \o Temperature >>
    ELSE << SensorsRoot \o <<"/">> \o Voltage, SensorsRoot \o <<"/">> \o PowerType >>

----------------------------------------------------------------------------
(* JSON                                                                     *)

EmptyObject == <<>>

\* j[k] = v of nlohmann::json
Put(j, k, v) == [x \in (DOMAIN j) \cup {k} |-> IF x = k THEN v ELSE j[x]]

CategoryKeys == {"Temperatures", "Fans", "Voltages", "PowerSupplies"}


----------------------------------------------------------------------------
(* Numbers.  A SensorVariant is [t |-> "int64", v |-> n] or                 *)
(* [t |-> "double", m |-> n, e |-> k], the double of value n * 10^k.  A     *)
(* JSON number is [num |-> "integer", v |-> n] or                           *)
(* [num |-> "float", m |-> n, e |-> k].                                     *)

RECURSIVE Pow10(_)
Pow10(n) == IF n <= 0 THEN 1 ELSE 10 * Pow10(n - 1)

\* conversion of the double m * 10^e to an integer type: the fraction is
\* discarded (truncation toward zero)
DoubleToInt(m, e) ==
    IF e >= 0 THEN m * Pow10(e)
    ELSE IF m >= 0 THEN m \div Pow10(-e) ELSE -((-m) \div Pow10(-e))

\* conversion of an int64_t to the 32-bit int "auto value = 0" declares: it
\* keeps every value of the int range, and the integers of this model (those
\* TLC represents) all lie within it
Int64ToInt(v) == v

JsonInteger(n) == [num |-> "integer", v |-> n]
JsonFloat(m, e) == [num |-> "float", m |-> m, e |-> e]

----------------------------------------------------------------------------
(* objectInterfacesToJson                                                   *)

\* a missing Scale read as one decimal place
ScaleMultiplierDefaultOne(valueProps) ==
    IF "Scale" \in DOMAIN valueProps
    THEN IF valueProps["Scale"].t = "int64" THEN valueProps["Scale"].v ELSE 0
    ELSE 1

\* scaleMultiplier: the Scale property when it is present and an int64
ScaleMultiplier(valueProps) ==
    IF "Scale" \in DOMAIN valueProps
    THEN IF valueProps["Scale"].t = "int64" THEN valueProps["Scale"].v ELSE 0
    ELSE 0

ForceToInt(sensorType) == sensorType = Fan \/ sensorType = FanTach

\* the destination key of the Value property; "" when the type cannot be mapped
Unit(sensorType) ==
    IF sensorType = Temperature THEN "ReadingCelsius"
    ELSE IF sensorType = Fan \/ sensorType = FanTach THEN "Reading"
    ELSE IF sensorType = Voltage THEN "ReadingVolts"
    ELSE IF sensorType = PowerType \/ sensorType = Current THEN "LastPowerOutputWatts"
    ELSE ""

OdataType(sensorType) ==
    IF sensorType = Temperature THEN <<"#Thermal.v1_3_0.Temperature">>
    ELSE IF sensorType = Fan \/ sensorType = FanTach THEN <<"#Thermal.v1_3_0.Fan">>
    ELSE IF sensorType = Voltage THEN <<"#Power.v1_0_0.Voltage">>
    ELSE <<"#Power.v1_5_0.PowerSupply">>

\* the vector "properties": <<dbus interface, dbus property, redfish property>>
Properties(sensorType) ==
    << <<ValueInterface, "Value", Unit(sensorType)>>,
       <<"xyz.openbmc_project.Sensor.Threshold.Warning", "WarningHigh", "UpperThresholdNonCritical">>,
       <<"xyz.openbmc_project.Sensor.Threshold.Warning", "WarningLow", "LowerThresholdNonCritical">>,
       <<"xyz.openbmc_project.Sensor.Threshold.Critical", "CriticalHigh", "UpperThresholdCritical">>,
       <<"xyz.openbmc_project.Sensor.Threshold.Critical", "CriticalLow", "LowerThresholdCritical">>,
       <<"xyz.openbmc_project.Sensor.Threshold.Fatal", "FatalHigh", "UpperThresholdFatal">>,
       <<"xyz.openbmc_project.Sensor.Threshold.Fatal", "FatalLow", "LowerThresholdFatal">> >>
    \o (IF sensorType = Temperature
        THEN << <<ValueInterface, "MinValue", "MinReadingRangeTemp">>,
                <<ValueInterface, "MaxValue", "MaxReadingRangeTemp">>,
                <<ValueInterface, "SensorID", "SensorNumber">> >>
        ELSE IF sensorType = Voltage
        THEN << <<ValueInterface, "SensorID", "SensorNumber">> >>
        ELSE IF sensorType = PowerType
        THEN << >>
        ELSE << <<ValueInterface, "MinValue", "MinReadingRange">>,
                <<ValueInterface, "MaxValue", "MaxReadingRange">> >>)

\* the JSON number stored for one property found on the bus.  An int64 goes
\* through the int "value" and leaves as an integer on both branches of
\* "forceToInt || scaleMultiplier >= 0"; a double is scaled and keeps its
\* fraction unless forceToInt.  The comparison with "SensorID" compares the
\* addresses of two string literals, equal only when the build merges
\* identical literals.
PropertyJson(variant, prop, scaleMultiplier, forceToInt) ==
    IF variant.t = "int64"
    THEN IF prop = "SensorID" /\ mergedLiterals
         THEN JsonInteger(Int64ToInt(variant.v))
         ELSE JsonInteger(DoubleToInt(variant.v, scaleMultiplier))
    ELSE IF forceToInt
         THEN JsonInteger(DoubleToInt(variant.m, variant.e + scaleMultiplier))
         ELSE JsonFloat(variant.m, variant.e + scaleMultiplier)

\* a loop that ends at the first property the object does not carry
RECURSIVE CopyPropertiesStopAtMissing(_, _, _, _, _)
CopyPropertiesStopAtMissing(properties, interfacesDict, scaleMultiplier, forceToInt, sensor_json) ==
    IF properties = <<>> THEN sensor_json
    ELSE IF ~(/\ Head(properties)[1] \in DOMAIN interfacesDict
              /\ Head(properties)[2] \in DOMAIN interfacesDict[Head(properties)[1]])
    THEN sensor_json
    ELSE CopyPropertiesStopAtMissing(
             Tail(properties), interfacesDict, scaleMultiplier, forceToInt,
             Put(sensor_json, Head(properties)[3],
                 PropertyJson(interfacesDict[Head(properties)[1]][Head(properties)[2]],
                              Head(properties)[2], scaleMultiplier, forceToInt)))

RECURSIVE CopyProperties(_, _, _, _, _)
CopyProperties(properties, interfacesDict, scaleMultiplier, forceToInt, sensor_json) ==
    IF properties = <<>> THEN sensor_json
    ELSE LET p == Head(properties)
             found == /\ p[1] \in DOMAIN interfacesDict
                      /\ p[2] \in DOMAIN interfacesDict[p[1]]
             next == IF found
                     THEN Put(sensor_json, p[3],
                              PropertyJson(interfacesDict[p[1]][p[2]], p[2],
                                           scaleMultiplier, forceToInt))
                     ELSE sensor_json
         IN  CopyProperties(Tail(properties), interfacesDict, scaleMultiplier,
                            forceToInt, next)

objectInterfacesToJson(sensorName, sensorType, interfacesDict, sensor_json) ==
    IF ValueInterface \notin DOMAIN interfacesDict THEN sensor_json
    ELSE LET scaleMultiplier == ScaleMultiplier(interfacesDict[ValueInterface])
             j1 == Put(sensor_json, "MemberId", sensorName)
             j2 == Put(j1, "Name", sensorName)
             j3 == Put(j2, "Status", [State |-> <<"Enabled">>, Health |-> <<"OK">>])
         IN  IF Unit(sensorType) = "" THEN j3
             ELSE LET j4 == IF ForceToInt(sensorType)
                            THEN Put(j3, "ReadingUnits", <<"RPM">>) ELSE j3
                      j5 == Put(j4, "@odata.type", OdataType(sensorType))
                  IN  CopyProperties(Properties(sensorType), interfacesDict,
                                     scaleMultiplier, ForceToInt(sensorType), j5)

\* no call of objectInterfacesToJson on its own
NoProjection ==
    [stage |-> "none", sensorName |-> <<>>, sensorType |-> <<>>,
     interfacesDict |-> EmptyObject, sensor_json |-> EmptyObject]

----------------------------------------------------------------------------
(* crow::Response and SensorAsyncResp                                       *)

NewResponse == [code |-> "ok", jsonValue |-> EmptyObject, ended |-> 0]

\* res.end()
ResEnd(rs) == [rs EXCEPT !.ended = @ + 1]

\* a second recording that changes what the first recorded
setErrorStatusToggle(rs) ==
    [rs EXCEPT !.code = IF @ = "internal_server_error" THEN "ok"
                        ELSE "internal_server_error"]

\* SensorAsyncResp::setErrorStatus
setErrorStatus(rs) == [rs EXCEPT !.code = "internal_server_error"]

\* a destructor that forgets to reset the document
DestructorKeepJson(rs) == ResEnd(rs)

\* SensorAsyncResp::~SensorAsyncResp
Destructor(rs) ==
    ResEnd(IF rs.code = "internal_server_error"
           THEN [rs EXCEPT !.jsonValue = EmptyObject]
           ELSE rs)

NoScope == [state |-> "none", chassisId |-> <<>>, types |-> <<>>, chassisSubNode |-> <<>>]

\* the shared_ptr copies the GetSubTree handler owns: the capture of
\* respHandler and the capture of getConnectionCb moved into it
RespHandlerHandles == {<<"respHandler", "sensorAsyncResp">>, <<"respHandler", "callback">>}

\* the copy a getManagedObjectsCb closure owns
ManagedObjectsHandle(connection) == <<"getManagedObjectsCb", connection>>

\* every copy destroys the object it points to (no shared ownership)
ReleaseHandlesEach(rs, own, hs) ==
    [res |-> Destructor(rs), owners |-> own \ hs]

\* a handler that returns on the error path keeps its copy alive
ReleaseHandlesLeakOnError(rs, own, hs) ==
    IF rs.code = "internal_server_error"
    THEN [res |-> rs, owners |-> own]
    ELSE [res |-> IF own \ hs = {} /\ own # {} THEN Destructor(rs) ELSE rs,
          owners |-> own \ hs]

\* the destruction of the shared_ptr copies hs: the SensorAsyncResp is
\* destroyed, and its destructor runs, when the last copy goes
ReleaseHandles(rs, own, hs) ==
    LET left == own \ hs
    IN  [res |-> IF left = {} /\ own # {} THEN Destructor(rs) ELSE rs,
         owners |-> left]

GetSubTreeCall == [method |-> "GetSubTree", connection |-> "xyz.openbmc_project.ObjectMapper"]
GetManagedObjectsCall(connection) == [method |-> "GetManagedObjects", connection |-> connection]

----------------------------------------------------------------------------
(* getConnections: the connections of the requested sensor types             *)

\* operator< of the connection names
Rank(connection) ==
    CHOOSE i \in 1..Len(ConnectionOrder) : ConnectionOrder[i] = connection

\* a std::vector in place of the flat_set
VectorPushBack(fs, x) == Append(fs, x)

\* boost::container::flat_set<std::string>::insert: a sorted vector without
\* duplicates
FlatSetInsert(fs, x) ==
    IF \E i \in 1..Len(fs) : fs[i] = x THEN fs
    ELSE LET k == Cardinality({i \in 1..Len(fs) : Rank(fs[i]) < Rank(x)})
         IN  SubSeq(fs, 1, k) \o <<x>> \o SubSeq(fs, k + 1, Len(fs))

\* no type filter
MatchesAnyType(types, path) == TRUE

\* the loop over sensorAsyncResp->types: some requested type is a prefix of
\* the path (the loop breaks at the first)
MatchesRequestedType(types, path) ==
    \E i \in 1..Len(types) : StartsWith(path, types[i])

\* the loop over object.second: connections.insert(objData.first)
RECURSIVE InsertServices(_, _)
InsertServices(connections, services) ==
    IF services = <<>> THEN connections
    ELSE InsertServices(FlatSetInsert(connections, Head(services)[1]), Tail(services))

\* the loop over subtree
RECURSIVE CollectConnections(_, _, _)
CollectConnections(types, subtree, connections) ==
    IF subtree = <<>> THEN connections
    ELSE LET object == Head(subtree)
             found == IF MatchesRequestedType(types, object.path)
                      THEN IF RFindSlash(object.path) # 0
                           THEN InsertServices(connections, object.services)
                           ELSE connections
                      ELSE connections
         IN  CollectConnections(types, Tail(subtree), found)

----------------------------------------------------------------------------
(* getManagedObjectsCb: one JSON entry per sensor object                     *)

MinPathSegments == 6

\* isMatchSensorType: the segment occurs in one of the requested types
IsMatchSensorType(types, sensorType) ==
    \E i \in 1..Len(types) : StrStr(types[i], sensorType)

\* a mapping that files power sensors under Voltages
FieldNamePowerAsVoltage(sensorType) ==
    IF sensorType = Temperature THEN "Temperatures"
    ELSE IF sensorType = Fan \/ sensorType = FanTach THEN "Fans"
    ELSE IF sensorType = Voltage \/ sensorType = PowerType THEN "Voltages"
    ELSE IF sensorType = Current THEN "PowerSupplies"
    ELSE ""

\* fieldName; "" stands for the branch that logs and continues
FieldName(sensorType) ==
    IF sensorType = Temperature THEN "Temperatures"
    ELSE IF sensorType = Fan \/ sensorType = FanTach THEN "Fans"
    ELSE IF sensorType = Voltage THEN "Voltages"
    ELSE IF sensorType = Current THEN "PowerSupplies"
    ELSE IF sensorType = PowerType THEN "PowerSupplies"
    ELSE ""

\* a loop body that puts the new entry in front of the array
ProcessObjectPushFront(sc, json, objDictEntry) ==
    LET split == Split(objDictEntry.path)
    IN  IF Len(split) < MinPathSegments THEN json
        ELSE IF ~IsMatchSensorType(sc.types, split[5]) THEN json
        ELSE IF FieldName(split[5]) = "" THEN json
        ELSE LET fieldName == FieldName(split[5])
                 tempArray == IF fieldName \in DOMAIN json THEN json[fieldName] ELSE <<>>
                 sensorJson ==
                     objectInterfacesToJson(
                         split[6], split[5], objDictEntry.interfaces,
                         Put(EmptyObject, "@odata.id",
                             <<"/redfish/v1/Chassis/">> \o sc.chassisId \o <<"/">>
                               \o sc.chassisSubNode \o <<"#/">> \o split[6]))
             IN  Put(json, fieldName, <<sensorJson>> \o tempArray)

\* a loop body that assigns a fresh array holding the new entry alone
ProcessObjectOverwrite(sc, json, objDictEntry) ==
    LET split == Split(objDictEntry.path)
    IN  IF Len(split) < MinPathSegments THEN json
        ELSE IF ~IsMatchSensorType(sc.types, split[5]) THEN json
        ELSE IF FieldName(split[5]) = "" THEN json
        ELSE Put(json, FieldName(split[5]),
                 <<objectInterfacesToJson(
                       split[6], split[5], objDictEntry.interfaces,
                       Put(EmptyObject, "@odata.id",
                           <<"/redfish/v1/Chassis/">> \o sc.chassisId \o <<"/">>
                             \o sc.chassisSubNode \o <<"#/">> \o split[6]))>>)

\* the body of the loop over resp
ProcessObject(sc, json, objDictEntry) ==
    LET split == Split(objDictEntry.path)
    IN  IF Len(split) < MinPathSegments THEN json
        ELSE LET sensorType == split[5]
                 sensorName == split[6]
                 fieldName == FieldName(sensorType)
             IN  IF ~IsMatchSensorType(sc.types, sensorType) THEN json
                 ELSE IF fieldName = "" THEN json
                 ELSE LET tempArray == IF fieldName \in DOMAIN json
                                       THEN json[fieldName] ELSE <<>>
                          odataId == <<"/redfish/v1/Chassis/">> \o sc.chassisId
                                       \o <<"/">> \o sc.chassisSubNode
                                       \o <<"#/">> \o sensorName
                          sensorJson ==
                              objectInterfacesToJson(
                                  sensorName, sensorType, objDictEntry.interfaces,
                                  Put(EmptyObject, "@odata.id", odataId))
                      IN  Put(json, fieldName, Append(tempArray, sensorJson))

\* "return" in place of "continue" at a path that is too short
RECURSIVE ProcessObjectsStopAtShort(_, _, _)
ProcessObjectsStopAtShort(sc, json, resp) ==
    IF resp = <<>> THEN json
    ELSE IF Len(Split(Head(resp).path)) < MinPathSegments THEN json
    ELSE ProcessObjectsStopAtShort(sc, ProcessObject(sc, json, Head(resp)), Tail(resp))

RECURSIVE ProcessObjects(_, _, _)
ProcessObjects(sc, json, resp) ==
    IF resp = <<>> THEN json
    ELSE ProcessObjects(sc, ProcessObject(sc, json, Head(resp)), Tail(resp))

\* a callback that writes nothing once an error is recorded
ManagedObjectsBodySkipAfterError(sc, rs, ec, resp) ==
    IF ec # 0 THEN setErrorStatus(rs)
    ELSE IF rs.code = "internal_server_error" THEN rs
    ELSE [rs EXCEPT !.jsonValue = ProcessObjects(sc, @, resp)]

\* a callback that treats a path that is too short as an error
ManagedObjectsBodyStrict(sc, rs, ec, resp) ==
    IF ec # 0 THEN setErrorStatus(rs)
    ELSE IF \E i \in 1..Len(resp) : Len(Split(resp[i].path)) < MinPathSegments
    THEN setErrorStatus(rs)
    ELSE [rs EXCEPT !.jsonValue = ProcessObjects(sc, @, resp)]

\* getManagedObjectsCb, from its entry to its return
ManagedObjectsBody(sc, rs, ec, resp) ==
    IF ec # 0 THEN setErrorStatus(rs)
    ELSE [rs EXCEPT !.jsonValue = ProcessObjects(sc, @, resp)]

----------------------------------------------------------------------------
(* The replies the bus can give                                             *)

SeqsUpTo(S, n) == UNION {[1..k -> S] : k \in 0..n}

ObjectPath(sensorType, sensorName) ==
    SensorsRoot \o <<"/">> \o sensorType \o <<"/">> \o sensorName

Int64(n) == [t |-> "int64", v |-> n]

\* the objects of a GetSubTree reply: <<path, <<connection, interfaces>>...>>
Service(connection) == <<connection, <<ValueInterface>> >>

SubtreeObjects ==
    { [path |-> ObjectPath(Temperature, <<"t1">>), services |-> <<Service("svcA")>>],
      [path |-> ObjectPath(FanTach, <<"f1">>),
       services |-> <<Service("svcA"), Service("svcB")>>],
      [path |-> ObjectPath(Voltage, <<"v1">>), services |-> <<Service("svcB")>>],
      [path |-> ObjectPath(<<"utilization">>, <<"u1">>), services |-> <<Service("svcB")>>] }

SubTrees == SeqsUpTo(SubtreeObjects, MaxSubtree)

ManagedObjects ==
    { [path |-> ObjectPath(Temperature, <<"t1">>),
       interfaces |-> (ValueInterface :> [Value |-> Int64(250), Scale |-> Int64(-1)])],
      [path |-> ObjectPath(FanTach, <<"f1">>),
       interfaces |-> (ValueInterface :> [Value |-> Int64(4200)])],
      \* a category that is part of the name of a requested one
      [path |-> ObjectPath(Fan, <<"f2">>),
       interfaces |-> (ValueInterface :> [Value |-> Int64(3100)])],
      [path |-> ObjectPath(Voltage, <<"v1">>),
       interfaces |-> (ValueInterface :> [Value |-> Int64(12), Scale |-> Int64(0)])],
      \* a path of five components: too short
      [path |-> SensorsRoot \o <<"/">> \o Temperature,
       interfaces |-> (ValueInterface :> [Value |-> Int64(1)])],
      \* a sensor without the value interface
      [path |-> ObjectPath(Temperature, <<"t2">>),
       interfaces |-> EmptyObject],
      \* a segment found in every requested type that names no category
      [path |-> ObjectPath(<<"sensors">>, <<"s1">>),
       interfaces |-> (ValueInterface :> [Value |-> Int64(7)])] }

\* the GetManagedObjects replies of at most n objects
ManagedReplies(n) == SeqsUpTo(ManagedObjects, n)

ParamLists == SeqsUpTo(ChassisNames, 2)

----------------------------------------------------------------------------
(* The state machine                                                        *)

NoReply ==
    [call |-> "none", connection |-> "", ec |-> 0, subtree |-> <<>>, resp |-> <<>>,
     atReturn |-> NewResponse]

RemoveAt(seq, i) == SubSeq(seq, 1, i - 1) \o SubSeq(seq, i + 1, Len(seq))

NodeJsonInit(node) ==
    IF node = "Thermal"
    THEN [x \in {"@odata.type", "@odata.context", "Id", "Name"} |->
            IF x = "@odata.type" THEN <<"#Thermal.v1_2_0.Thermal">>
            ELSE IF x = "@odata.context" THEN <<"/redfish/v1/$metadata#Thermal.Thermal">>
            ELSE <<"Thermal">>]
    ELSE [x \in {"@odata.type", "@odata.context", "Id", "Name"} |->
            IF x = "@odata.type" THEN <<"#Power.v1_2_1.Power">>
            ELSE IF x = "@odata.context" THEN <<"/redfish/v1/$metadata#Power.Power">>
            ELSE <<"Power">>]

\* no request has arrived
PipelineIdle ==
    /\ req = [r \in Requests |-> [node |-> "none", params |-> <<>>]]
    /\ nodeJson = [n \in Nodes |-> NodeJsonInit(n)]
    /\ res = [r \in Requests |-> NewResponse]
    /\ scope = [r \in Requests |-> NoScope]
    /\ owners = [r \in Requests |-> {}]
    /\ pending = [r \in Requests |-> <<>>]
    /\ current = [r \in Requests |-> NoReply]
    /\ delivered = [r \in Requests |-> <<>>]

NoHistory ==
    [gravest |-> "OK", groups |-> <<>>, properties |-> "", entries |-> <<>>,
     replied |-> FALSE]

\* no request to a handler with AsyncResp has arrived
HandlersIdle ==
    /\ hreq = [handler |-> "none", params |-> <<>>, body |-> [valid |-> TRUE, items |-> <<>>]]
    /\ hpc = [state |-> "idle", item |-> 0]
    /\ hres = NewResponse
    /\ hlocal = 0
    /\ hscopes = <<>>
    /\ hcalls = {}
    /\ hcrashed = FALSE
    /\ hreads = {}
    /\ hfailed = FALSE
    /\ hhistory = NoHistory

MaxUploads == 3     \* requests to the UploadService

\* no request to the UploadService has arrived: "static bool fileUpload = true"
UploadIdle ==
    [fileUpload |-> TRUE, arrived |-> 0, res |-> [k \in 1..MaxUploads |-> NewResponse],
     waits |-> <<>>, late |-> {}]

\* no function is called on its own
NoResult == [ret |-> <<>>, crash |-> FALSE, outside |-> FALSE, overflow |-> FALSE]
NoCalc ==
    [fn |-> "none", arg |-> [data |-> 0, field |-> 0, version |-> <<0, 0>>, s |-> <<0, 0>>],
     stage |-> "none", result |-> NoResult]

Init ==
    /\ PipelineIdle
    /\ HandlersIdle
    /\ mergedLiterals \in BOOLEAN
    /\ proj = NoProjection
    /\ upload = UploadIdle
    /\ calc = NoCalc

\* a Node::json that keeps the "@odata.id" it has
NodeDocumentKeepId(json, node, chassisName) ==
    IF "@odata.id" \in DOMAIN json THEN json
    ELSE Put(json, "@odata.id", <<"/redfish/v1/Chassis/">> \o chassisName \o <<"/", node>>)

\* Node::json["@odata.id"] = "/redfish/v1/Chassis/" + chassisName + "/<node>":
\* the member document of the node, which doGet copies into the response
NodeDocument(json, node, chassisName) ==
    Put(json, "@odata.id", <<"/redfish/v1/Chassis/">> \o chassisName \o <<"/", node>>)

\* Thermal::doGet / Power::doGet with getChassisData and getConnections, which
\* run to the end before the handler returns.  Of the shared_ptr copies made
\* on the way (the local, the parameter of getChassisData, the captures) the
\* two inside the GetSubTree handler are alive when doGet has returned.
doGet(r, node, params) ==
    /\ req[r].node = "none"
    /\ req' = [req EXCEPT ![r] = [node |-> node, params |-> params]]
    /\ IF Len(params) # 1
       THEN /\ res' = [res EXCEPT ![r] = ResEnd(setErrorStatus(@))]
            /\ UNCHANGED <<nodeJson, scope, owners, pending>>
       ELSE LET chassisName == params[1]
                json == NodeDocument(nodeJson[node], node, chassisName)
            IN  /\ nodeJson' = [nodeJson EXCEPT ![node] = json]
                /\ res' = [res EXCEPT ![r].jsonValue = json]
                /\ scope' = [scope EXCEPT ![r] =
                                [state |-> "alive", chassisId |-> chassisName,
                                 types |-> NodeTypes(node), chassisSubNode |-> <<node>>]]
                /\ owners' = [owners EXCEPT ![r] = RespHandlerHandles]
                /\ pending' = [pending EXCEPT ![r] = <<GetSubTreeCall>>]
    /\ UNCHANGED <<current, delivered>>
    /\ UNCHANGED otherVars

\* the calls getConnectionCb issues: one per element of connections, each
\* handler with its own copy of the shared_ptr
StageTwoCalls(connections) ==
    [i \in 1..Len(connections) |-> GetManagedObjectsCall(connections[i])]

\* closures that capture the shared_ptr by reference own nothing
StageTwoHandlesNone(connections) == {}

StageTwoHandles(connections) ==
    {ManagedObjectsHandle(connections[i]) : i \in 1..Len(connections)}

\* respHandler of getConnections, with the getConnectionCb it calls, and the
\* destruction of the handler when it has returned
respHandler(r, ec, subtree) ==
    /\ pending[r] = <<GetSubTreeCall>>
    /\ delivered' = [delivered EXCEPT ![r] =
                        Append(@, [call |-> "GetSubTree",
                                   connection |-> GetSubTreeCall.connection,
                                   ec |-> ec, resp |-> <<>>])]
    /\ \E connections \in {IF ec # 0 THEN <<>>
                             ELSE CollectConnections(scope[r].types, subtree, <<>>)} :
       \E rs \in {IF ec # 0 THEN setErrorStatus(res[r]) ELSE res[r]} :
       \E out \in {ReleaseHandles(rs, owners[r] \cup StageTwoHandles(connections),
                                  RespHandlerHandles)} :
           /\ res' = [res EXCEPT ![r] = out.res]
           /\ owners' = [owners EXCEPT ![r] = out.owners]
           /\ pending' = [pending EXCEPT ![r] = StageTwoCalls(connections)]
           /\ scope' = [scope EXCEPT ![r].state =
                             IF out.owners = {} THEN "destroyed" ELSE @]
           /\ current' = [current EXCEPT ![r] =
                             [call |-> "GetSubTree",
                              connection |-> GetSubTreeCall.connection,
                              ec |-> ec, subtree |-> subtree, resp |-> <<>>,
                              atReturn |-> rs]]
    /\ UNCHANGED <<req, nodeJson>>
    /\ UNCHANGED otherVars

\* getManagedObjectsCb of the i-th outstanding call, and the destruction of
\* the handler when it has returned
getManagedObjectsCb(r, i, ec, resp) ==
    /\ i \in 1..Len(pending[r])
    /\ pending[r][i].method = "GetManagedObjects"
    /\ pending' = [pending EXCEPT ![r] = RemoveAt(@, i)]
    /\ \E connection \in {pending[r][i].connection} :
       /\ delivered' = [delivered EXCEPT ![r] =
                           Append(@, [call |-> "GetManagedObjects",
                                      connection |-> connection,
                                      ec |-> ec, resp |-> resp])]
       /\ \E rs \in {ManagedObjectsBody(scope[r], res[r], ec, resp)} :
          \E out \in {ReleaseHandles(rs, owners[r], {ManagedObjectsHandle(connection)})} :
           /\ res' = [res EXCEPT ![r] = out.res]
           /\ owners' = [owners EXCEPT ![r] = out.owners]
           /\ scope' = [scope EXCEPT ![r].state =
                             IF out.owners = {} THEN "destroyed" ELSE @]
           /\ current' = [current EXCEPT ![r] =
                             [call |-> "GetManagedObjects", connection |-> connection,
                              ec |-> ec, subtree |-> <<>>, resp |-> resp,
                              atReturn |-> rs]]
    /\ UNCHANGED <<req, nodeJson>>
    /\ UNCHANGED otherVars

RECURSIVE ObjectsDelivered(_)
ObjectsDelivered(d) ==
    IF d = <<>> THEN 0 ELSE Len(Head(d).resp) + ObjectsDelivered(Tail(d))

\* the replies a call can complete with: an error code, or a payload
Arrive(r) ==
    \E node \in Nodes, params \in ParamLists : doGet(r, node, params)

SubTreeReply(r) ==
    /\ pending[r] = <<GetSubTreeCall>>
    /\ \/ \E ec \in ErrorCodes : respHandler(r, ec, <<>>)
       \/ \E subtree \in SubTrees : respHandler(r, 0, subtree)

ManagedObjectsReply(r) ==
    \E i \in 1..Len(pending[r]) :
        /\ pending[r][i].method = "GetManagedObjects"
        /\ \/ \E ec \in ErrorCodes : getManagedObjectsCb(r, i, ec, <<>>)
           \/ \E resp \in ManagedReplies(MaxObjects - ObjectsDelivered(delivered[r])) :
                 getManagedObjectsCb(r, i, 0, resp)

Next ==
    \E r \in SoloRequests :
        \/ Arrive(r)
        \/ SubTreeReply(r)
        \/ ManagedObjectsReply(r)

Spec == Init /\ [][Next]_vars

\* every backend query that was issued completes: the bus calls each handler
FairSpec ==
    /\ Spec
    /\ \A r \in SoloRequests :
        /\ WF_vars(SubTreeReply(r))
        /\ WF_vars(ManagedObjectsReply(r))

----------------------------------------------------------------------------
(* Two requests on the one event loop.  Every handler runs to its end, so   *)
(* the steps of the two requests interleave handler by handler.  The bus    *)
(* replies are drawn from a few short ones, and each request has a chassis  *)
(* of its own.                                                              *)

PairChassis(r) == IF r = "req1" THEN <<"chassis0">> ELSE <<"chassis1">>
PairErrorCode == CHOOSE ec \in ErrorCodes : TRUE
PairPaths ==
    {ObjectPath(Temperature, <<"t1">>), ObjectPath(FanTach, <<"f1">>),
     ObjectPath(Voltage, <<"v1">>)}
PairSubTrees == {<<>>} \cup {<<o>> : o \in {x \in SubtreeObjects : x.path \in PairPaths}}
PairReplies == {<<>>} \cup {<<o>> : o \in {x \in ManagedObjects : x.path \in PairPaths}}

PairArrive(r) ==
    \E node \in Nodes, params \in {<<>>, <<PairChassis(r)>>} : doGet(r, node, params)

PairSubTreeReply(r) ==
    /\ pending[r] = <<GetSubTreeCall>>
    /\ \/ respHandler(r, PairErrorCode, <<>>)
       \/ \E subtree \in PairSubTrees : respHandler(r, 0, subtree)

PairManagedObjectsReply(r) ==
    \E i \in 1..Len(pending[r]) :
        /\ pending[r][i].method = "GetManagedObjects"
        /\ \/ getManagedObjectsCb(r, i, PairErrorCode, <<>>)
           \/ \E resp \in PairReplies : getManagedObjectsCb(r, i, 0, resp)

PairNext ==
    \E r \in Requests :
        \/ PairArrive(r)
        \/ PairSubTreeReply(r)
        \/ PairManagedObjectsReply(r)

PairSpec == Init /\ [][PairNext]_vars

----------------------------------------------------------------------------
(* One request whose sensors are served by two connections.  The replies    *)
(* hold objects of every category the loop names, and one more object than  *)
(* MaxObjects in all, so that one connection can return two objects while   *)
(* the other returns one.                                                   *)

CategorySubTrees ==
    {<<[path |-> ObjectPath(FanTach, <<"f1">>),
        services |-> <<Service("svcA"), Service("svcB")>>]>>,
     <<[path |-> ObjectPath(Voltage, <<"v1">>),
        services |-> <<Service("svcA"), Service("svcB")>>]>>}

CategoryObjects ==
    {o \in ManagedObjects :
        o.path \in {ObjectPath(Temperature, <<"t1">>), ObjectPath(FanTach, <<"f1">>),
                    ObjectPath(Fan, <<"f2">>), ObjectPath(Voltage, <<"v1">>),
                    ObjectPath(<<"sensors">>, <<"s1">>)}}
    \cup {[path |-> ObjectPath(PowerType, <<"p1">>),
           interfaces |-> (ValueInterface :> [Value |-> Int64(35)])],
          [path |-> ObjectPath(Current, <<"c1">>),
           interfaces |-> (ValueInterface :> [Value |-> Int64(2)])]}

\* a reply is a dictionary keyed by object path: no path occurs twice in it
CategoryReplies(n) ==
    {resp \in SeqsUpTo(CategoryObjects, n) :
        \A i, j \in 1..Len(resp) : resp[i].path = resp[j].path => i = j}

CategoryArrive(r) ==
    \E node \in Nodes, chassis \in ChassisNames : doGet(r, node, <<chassis>>)

CategorySubTreeReply(r) ==
    /\ pending[r] = <<GetSubTreeCall>>
    /\ \/ respHandler(r, PairErrorCode, <<>>)
       \/ \E subtree \in CategorySubTrees : respHandler(r, 0, subtree)

CategoryManagedObjectsReply(r) ==
    \E i \in 1..Len(pending[r]) :
        /\ pending[r][i].method = "GetManagedObjects"
        /\ \/ getManagedObjectsCb(r, i, PairErrorCode, <<>>)
           \/ \E resp \in CategoryReplies(MaxObjects + 1 - ObjectsDelivered(delivered[r])) :
                 getManagedObjectsCb(r, i, 0, resp)

CategoryNext ==
    \E r \in SoloRequests :
        \/ CategoryArrive(r)
        \/ CategorySubTreeReply(r)
        \/ CategoryManagedObjectsReply(r)

CategorySpec == Init /\ [][CategoryNext]_vars

----------------------------------------------------------------------------
(* The build without OCP_CUSTOM_FLAG: Thermal::doGet finds the sensors of   *)
(* the chassis with a GetManagedObjects call to the EntityManager           *)
(* (getChassis) before getConnections and the sensor queries.               *)

InventoryRoot == <<"/", "xyz", "/", "openbmc_project", "/", "inventory">>
EntitySensorsRoot == <<"/", "xyz", "/", "openbmc_project", "/", "Sensors">>

\* the types Thermal::doGet passes to SensorAsyncResp in this build
EntityTypes ==
    << EntitySensorsRoot \o <<"/">> \o Fan, EntitySensorsRoot \o <<"/">> \o Temperature >>

\* the paths of the objects of a reply of the EntityManager
EntityPaths ==
    { InventoryRoot \o <<"/", "chassis0", "/", "t1">>,
      InventoryRoot \o <<"/", "chassis0", "/", "f1">>,
      InventoryRoot \o <<"/", "chassis1", "/", "t1">>,
      \* a path without "/": a single component
      <<"chassis0">> }

EntityReplies == SeqsUpTo(EntityPaths, MaxSubtree)

EntitySubtreeObjects ==
    { [path |-> EntitySensorsRoot \o <<"/">> \o Temperature \o <<"/", "t1">>,
       services |-> <<Service("svcA")>>],
      [path |-> EntitySensorsRoot \o <<"/">> \o Fan \o <<"/", "f1">>,
       services |-> <<Service("svcA"), Service("svcB")>>],
      [path |-> EntitySensorsRoot \o <<"/">> \o Temperature \o <<"/", "t9">>,
       services |-> <<Service("svcB")>>] }

EntitySubTrees == SeqsUpTo(EntitySubtreeObjects, MaxSubtree)

EntityManagedObjects ==
    { [path |-> EntitySensorsRoot \o <<"/">> \o Temperature \o <<"/", "t1">>,
       interfaces |-> (ValueInterface :> [Value |-> Int64(250), Scale |-> Int64(-1)])],
      [path |-> EntitySensorsRoot \o <<"/">> \o Temperature \o <<"/", "t9">>,
       interfaces |-> (ValueInterface :> [Value |-> Int64(1)])] }

EntityManagedReplies(n) == SeqsUpTo(EntityManagedObjects, n)

EntityManagerCall ==
    [method |-> "GetManagedObjects", connection |-> "xyz.openbmc_project.EntityManager"]

\* the shared_ptr copies the handler of the EntityManager call owns: the
\* capture of respHandler and the capture of getChassisCb moved into it
GetChassisHandles ==
    {<<"getChassis respHandler", "sensorAsyncResp">>, <<"getChassis respHandler", "callback">>}

\* Thermal::doGet with the SensorAsyncResp constructor, getChassisData and
\* getChassis, which run to the end before the handler returns
EntityDoGet(r, params) ==
    /\ req[r].node = "none"
    /\ req' = [req EXCEPT ![r] = [node |-> "Thermal", params |-> params]]
    /\ IF Len(params) # 1
       THEN /\ res' = [res EXCEPT ![r] = ResEnd(setErrorStatus(@))]
            /\ UNCHANGED <<scope, owners, pending>>
       ELSE LET chassisName == params[1]
            IN  /\ res' = [res EXCEPT ![r].jsonValue =
                               Put(nodeJson["Thermal"], "@odata.id",
                                   <<"/redfish/v1/Chassis/">> \o chassisName
                                     \o <<"/Thermal">>)]
                /\ scope' = [scope EXCEPT ![r] =
                                [state |-> "alive", chassisId |-> chassisName,
                                 types |-> EntityTypes, chassisSubNode |-> <<"Thermal">>,
                                 sensorNames |-> {}]]
                /\ owners' = [owners EXCEPT ![r] = GetChassisHandles]
                /\ pending' = [pending EXCEPT ![r] = <<EntityManagerCall>>]
    /\ UNCHANGED <<nodeJson, current, delivered>>
    /\ UNCHANGED otherVars

\* a handler that takes every object for a sensor of the chassis
ChassisSensorNamesAny(chassisId, resp) ==
    {Split(resp[i])[Len(Split(resp[i]))] : i \in 1..Len(resp)}

\* the loop over resp of the handler of getChassis: the names of the objects
\* whose path has the chassis id as the component before the last; an object
\* was found exactly when the set is not empty
ChassisSensorNames(chassisId, resp) ==
    {Split(resp[i])[Len(Split(resp[i]))] :
        i \in {j \in 1..Len(resp) :
                 LET split == Split(resp[j])
                 IN  /\ ~(Len(split) < 2)
                     /\ split[Len(split) - 1] = chassisId}}

\* respHandler of getChassis with, when the chassis was found, getChassisCb
\* and the getConnections it calls, and the destruction of the handler
getChassisRespHandler(r, ec, resp) ==
    /\ pending[r] = <<EntityManagerCall>>
    /\ delivered' = [delivered EXCEPT ![r] =
                        Append(@, [call |-> "EntityManager",
                                   connection |-> EntityManagerCall.connection,
                                   ec |-> ec, resp |-> resp])]
    /\ \E sensorNames \in {IF ec # 0 THEN {}
                             ELSE ChassisSensorNames(scope[r].chassisId, resp)} :
       \E foundChassis \in {sensorNames # {}} :
       \E rs \in {IF ec # 0 THEN setErrorStatus(res[r])
                  ELSE IF ~foundChassis THEN [res[r] EXCEPT !.code = "not_found"]
                  ELSE res[r]} :
       \E out \in {ReleaseHandles(rs,
                                  IF foundChassis THEN owners[r] \cup RespHandlerHandles
                                  ELSE owners[r],
                                  GetChassisHandles)} :
           /\ res' = [res EXCEPT ![r] = out.res]
           /\ owners' = [owners EXCEPT ![r] = out.owners]
           /\ pending' = [pending EXCEPT ![r] =
                             IF foundChassis THEN <<GetSubTreeCall>> ELSE <<>>]
           /\ scope' = [scope EXCEPT ![r].state =
                                         IF out.owners = {} THEN "destroyed" ELSE @,
                                     ![r].sensorNames = sensorNames]
           /\ current' = [current EXCEPT ![r] =
                             [call |-> "EntityManager",
                              connection |-> EntityManagerCall.connection,
                              ec |-> ec, subtree |-> <<>>, resp |-> resp,
                              atReturn |-> rs]]
    /\ UNCHANGED <<req, nodeJson>>
    /\ UNCHANGED otherVars

\* the loop over subtree in this build: the connections of the objects of a
\* requested type whose name is one of sensorNames
RECURSIVE CollectChassisConnections(_, _, _, _)
CollectChassisConnections(types, sensorNames, subtree, connections) ==
    IF subtree = <<>> THEN connections
    ELSE LET object == Head(subtree)
             lastPos == RFindSlash(object.path)
             found == IF MatchesRequestedType(types, object.path) /\ lastPos # 0
                      THEN IF SubSeq(object.path, lastPos + 1, Len(object.path))
                                \in sensorNames
                           THEN InsertServices(connections, object.services)
                           ELSE connections
                      ELSE connections
         IN  CollectChassisConnections(types, sensorNames, Tail(subtree), found)

\* respHandler of getConnections in this build, with getConnectionCb
getConnectionsRespHandler(r, ec, subtree) ==
    /\ pending[r] = <<GetSubTreeCall>>
    /\ delivered' = [delivered EXCEPT ![r] =
                        Append(@, [call |-> "GetSubTree",
                                   connection |-> GetSubTreeCall.connection,
                                   ec |-> ec, resp |-> <<>>])]
    /\ \E connections \in {IF ec # 0 THEN <<>>
                             ELSE CollectChassisConnections(
                                      scope[r].types, scope[r].sensorNames, subtree, <<>>)} :
       \E rs \in {IF ec # 0 THEN setErrorStatus(res[r]) ELSE res[r]} :
       \E out \in {ReleaseHandles(rs, owners[r] \cup StageTwoHandles(connections),
                                  RespHandlerHandles)} :
           /\ res' = [res EXCEPT ![r] = out.res]
           /\ owners' = [owners EXCEPT ![r] = out.owners]
           /\ pending' = [pending EXCEPT ![r] = StageTwoCalls(connections)]
           /\ scope' = [scope EXCEPT ![r].state =
                             IF out.owners = {} THEN "destroyed" ELSE @]
           /\ current' = [current EXCEPT ![r] =
                             [call |-> "GetSubTree",
                              connection |-> GetSubTreeCall.connection,
                              ec |-> ec, subtree |-> subtree, resp |-> <<>>,
                              atReturn |-> rs]]
    /\ UNCHANGED <<req, nodeJson>>
    /\ UNCHANGED otherVars

\* the body of the loop over resp of getManagedObjectsCb in this build
ChassisProcessObject(sc, json, objDictEntry) ==
    LET split == Split(objDictEntry.path)
    IN  IF Len(split) < MinPathSegments THEN json
        ELSE LET sensorType == split[5]
                 sensorName == split[6]
                 fieldName == FieldName(sensorType)
             IN  IF sensorName \notin sc.sensorNames THEN json
                 ELSE IF fieldName = "" THEN json
                 ELSE LET tempArray == IF fieldName \in DOMAIN json
                                       THEN json[fieldName] ELSE <<>>
                          odataId == <<"/redfish/v1/Chassis/">> \o sc.chassisId
                                       \o <<"/Thermal#/">> \o sensorName
                          sensorJson ==
                              objectInterfacesToJson(
                                  sensorName, sensorType, objDictEntry.interfaces,
                                  Put(EmptyObject, "@odata.id", odataId))
                      IN  Put(json, fieldName, Append(tempArray, sensorJson))

RECURSIVE ChassisProcessObjects(_, _, _)
ChassisProcessObjects(sc, json, resp) ==
    IF resp = <<>> THEN json
    ELSE ChassisProcessObjects(sc, ChassisProcessObject(sc, json, Head(resp)), Tail(resp))

\* getManagedObjectsCb in this build, and the destruction of the handler
getChassisManagedObjectsCb(r, i, ec, resp) ==
    /\ i \in 1..Len(pending[r])
    /\ pending[r][i].method = "GetManagedObjects"
    /\ pending[r][i] # EntityManagerCall
    /\ pending' = [pending EXCEPT ![r] = RemoveAt(@, i)]
    /\ \E connection \in {pending[r][i].connection} :
       /\ delivered' = [delivered EXCEPT ![r] =
                           Append(@, [call |-> "GetManagedObjects",
                                      connection |-> connection,
                                      ec |-> ec, resp |-> resp])]
       /\ \E rs \in {IF ec # 0 THEN setErrorStatus(res[r])
                     ELSE [res[r] EXCEPT !.jsonValue =
                               ChassisProcessObjects(scope[r], @, resp)]} :
          \E out \in {ReleaseHandles(rs, owners[r], {ManagedObjectsHandle(connection)})} :
           /\ res' = [res EXCEPT ![r] = out.res]
           /\ owners' = [owners EXCEPT ![r] = out.owners]
           /\ scope' = [scope EXCEPT ![r].state =
                             IF out.owners = {} THEN "destroyed" ELSE @]
           /\ current' = [current EXCEPT ![r] =
                             [call |-> "GetManagedObjects", connection |-> connection,
                              ec |-> ec, subtree |-> <<>>, resp |-> resp,
                              atReturn |-> rs]]
    /\ UNCHANGED <<req, nodeJson>>
    /\ UNCHANGED otherVars

EntityArrive(r) ==
    \E params \in ParamLists : EntityDoGet(r, params)

EntityManagerReply(r) ==
    /\ pending[r] = <<EntityManagerCall>>
    /\ \/ \E ec \in ErrorCodes : getChassisRespHandler(r, ec, <<>>)
       \/ \E resp \in EntityReplies : getChassisRespHandler(r, 0, resp)

EntitySubTreeReply(r) ==
    /\ pending[r] = <<GetSubTreeCall>>
    /\ \/ \E ec \in ErrorCodes : getConnectionsRespHandler(r, ec, <<>>)
       \/ \E subtree \in EntitySubTrees : getConnectionsRespHandler(r, 0, subtree)

EntityManagedObjectsReply(r) ==
    \E i \in 1..Len(pending[r]) :
        /\ pending[r][i].method = "GetManagedObjects"
        /\ pending[r][i] # EntityManagerCall
        /\ \/ \E ec \in ErrorCodes : getChassisManagedObjectsCb(r, i, ec, <<>>)
           \/ \E resp \in EntityManagedReplies(MaxObjects) :
                 getChassisManagedObjectsCb(r, i, 0, resp)

EntityNext ==
    \E r \in SoloRequests :
        \/ EntityArrive(r)
        \/ EntityManagerReply(r)
        \/ EntitySubTreeReply(r)
        \/ EntityManagedObjectsReply(r)

EntitySpec == Init /\ [][EntityNext]_vars

----------------------------------------------------------------------------
(* objectInterfacesToJson on its own: every sensor type and a family of     *)
(* interface dictionaries, one call per behaviour                           *)

MaxScale == 2       \* the Scale property ranges over -MaxScale..MaxScale

Double(m, e) == [t |-> "double", m |-> m, e |-> e]
Absent == [t |-> "absent"]

SensorTypes ==
    {Temperature, Fan, FanTach, Voltage, PowerType, Current, <<"utilization">>}

\* the Scale property: an int64, or a double (which the code does not use)
Scales == {Int64(n) : n \in (-MaxScale)..MaxScale} \cup {Double(-1, 0)}
RawValues == {Int64(250), Int64(255), Double(42005, -1)}
SensorIDs == {Int64(17), Double(17, 0)}
MinValues == {Int64(-405)}

\* the property map that holds the properties given and not Absent
PropsOf(all) == [k \in {x \in DOMAIN all : all[x] # Absent} |-> all[k]]

ValueProps ==
    {PropsOf([Value |-> v, Scale |-> sc, SensorID |-> id, MinValue |-> mn]) :
        v \in RawValues \cup {Absent}, sc \in Scales \cup {Absent},
        id \in SensorIDs \cup {Absent}, mn \in MinValues \cup {Absent}}

WarningInterface == "xyz.openbmc_project.Sensor.Threshold.Warning"
CriticalInterface == "xyz.openbmc_project.Sensor.Threshold.Critical"

InterfacesOf(all) == [k \in {x \in DOMAIN all : all[x] # Absent} |-> all[k]]

InterfaceDicts ==
    {InterfacesOf((ValueInterface :> vp) @@ (WarningInterface :> w)
                  @@ (CriticalInterface :> c)) :
        vp \in ValueProps,
        w \in {Absent, [WarningHigh |-> Int64(905)]},
        c \in {Absent, [CriticalLow |-> Double(-55, -1)]}}
    \cup {InterfacesOf((ValueInterface :> Absent)
                       @@ (WarningInterface :> [WarningHigh |-> Int64(905)]))}

ProjectorInit ==
    /\ PipelineIdle
    /\ HandlersIdle
    /\ upload = UploadIdle
    /\ calc = NoCalc
    /\ mergedLiterals \in BOOLEAN
    /\ proj \in [stage : {"called"}, sensorName : {<<"s1">>}, sensorType : SensorTypes,
                 interfacesDict : InterfaceDicts,
                 sensor_json : {Put(EmptyObject, "@odata.id",
                                    <<"/redfish/v1/Chassis/", "chassis0", "/",
                                      "Thermal", "#/", "s1">>)}]

\* one call of objectInterfacesToJson, from entry to return
Project ==
    /\ proj.stage = "called"
    /\ proj' = [proj EXCEPT !.stage = "returned",
                            !.sensor_json =
                                objectInterfacesToJson(proj.sensorName, proj.sensorType,
                                                       proj.interfacesDict, @)]
    /\ UNCHANGED <<pipelineVars, mergedLiterals, handlerVars, upload, calc>>

ProjectorNext == Project

ProjectorSpec == ProjectorInit /\ [][ProjectorNext]_vars

----------------------------------------------------------------------------
(* Handlers that complete through AsyncResp (roles.hpp, systems.hpp).  One  *)
(* request is handled per behaviour.  The handler runs on the event loop    *)
(* until it returns; the handlers of its async_method_call's run after it.  *)

\* std::make_shared<AsyncResp>(res): one more scope over the response, held
\* by the copy named handle
MakeAsyncResp(scopes, handle) == Append(scopes, {handle})

\* one more shared_ptr copy of scope id; a copy of a null pointer is null
CopyHandle(scopes, id, handle) ==
    IF id = 0 THEN scopes ELSE [scopes EXCEPT ![id] = @ \cup {handle}]

\* the destruction of a shared_ptr that is never followed by ~AsyncResp
DestroyHandleLeak(rs, scopes, id, handle) ==
    [res |-> rs,
     scopes |-> IF id = 0 THEN scopes ELSE [scopes EXCEPT ![id] = @ \ {handle}]]

\* the destruction of the shared_ptr copy named handle: ~AsyncResp, which
\* ends the response, runs when it was the last copy of its scope
DestroyHandle(rs, scopes, id, handle) ==
    IF id = 0 THEN [res |-> rs, scopes |-> scopes]
    ELSE [res |-> IF scopes[id] = {handle} THEN ResEnd(rs) ELSE rs,
          scopes |-> [scopes EXCEPT ![id] = @ \ {handle}]]

\* res.result(status)
SetResult(rs, status) == [rs EXCEPT !.code = status]

\* messages::addMessageToErrorJson and messages::addMessageToJsonRoot: the
\* message is put into the document; the result code is left alone
AddMessageToErrorJson(json, message) == Put(json, "error", message)
AddMessageToJsonRoot(json, message) == Put(json, "@Message.ExtendedInfo", message)

RoleNames ==
    {<<"Administrator">>, <<"Operator">>, <<"ReadOnly">>, <<"Callback">>, <<"Guest">>}

RolesNodeJson ==
    ("@odata.type" :> <<"#Role.v1_0_2.Role">>)
    @@ ("@odata.context" :> <<"/redfish/v1/$metadata#Role.Role">>)
    @@ ("Name" :> <<"User Role">>)
    @@ ("IsPredefined" :> TRUE)
    @@ ("OemPrivileges" :> <<>>)

AssignedPrivileges(role) ==
    IF role = <<"Administrator">>
    THEN <<"Login", "ConfigureManager", "ConfigureUsers", "ConfigureSelf",
           "ConfigureComponents">>
    ELSE IF role = <<"Operator">>
    THEN <<"Login", "ConfigureSelf", "ConfigureComponents">>
    ELSE <<"Login", "ConfigureSelf">>

KnownRoles == {<<"Administrator">>, <<"Operator">>, <<"ReadOnly">>, <<"Callback">>}

\* what Roles::doGet writes into the response before it returns
RolesBody(rs, role) ==
    LET rs1 == [rs EXCEPT !.jsonValue = RolesNodeJson]
    IN  IF role \notin KnownRoles THEN SetResult(rs1, "not_found")
        ELSE LET j1 == Put(rs1.jsonValue, "AssignedPrivileges", AssignedPrivileges(role))
                 j2 == IF role = <<"Callback">> THEN Put(j1, "IsPredefined", FALSE) ELSE j1
                 j3 == Put(j2, "@odata.id",
                           <<"/redfish/v1/AccountService/Roles/">> \o role)
                 j4 == Put(j3, "Id", role)
             IN  [rs1 EXCEPT !.jsonValue = Put(j4, "Description", role \o <<" User Role">>)]

\* the handles a handler's variables hold: its local asyncResp, and the
\* asyncResp of an inner block
LocalHandle == <<"asyncResp", "">>
InnerHandle == <<"asyncResp", "inner block">>

\* a return that leaves the local asyncResp alive
FunctionReturnKeepLocal(rs, scopes, local) == [res |-> rs, scopes |-> scopes]

\* the return of a handler: its local asyncResp is destroyed
FunctionReturn(rs, scopes, local) == DestroyHandle(rs, scopes, local, LocalHandle)

\* Roles::doGet, from entry to return: the local asyncResp is the only copy
\* and is destroyed when the function returns, on either path
RolesDoGet(role) ==
    /\ hreq.handler = "none"
    /\ ~hcrashed
    /\ hreq' = [hreq EXCEPT !.handler = "Roles::doGet", !.params = <<role>>]
    /\ \E out \in {FunctionReturn(RolesBody(hres, role),
                                  MakeAsyncResp(hscopes, LocalHandle),
                                  Len(hscopes) + 1)} :
           /\ hres' = out.res
           /\ hscopes' = out.scopes
    /\ hpc' = [state |-> "returned", item |-> 0]
    /\ UNCHANGED <<hlocal, hcalls, hcrashed, hreads, hfailed, hhistory>>
    /\ UNCHANGED <<pipelineVars, mergedLiterals, proj, upload, calc>>

----------------------------------------------------------------------------
(* Systems::doPatch.  The body is the object nlohmann::json parsed, its     *)
(* items in the order of std::map (by key), or a text that does not parse.  *)
(* The replies of the read helpers (getHostState, getComputerSystem and the *)
(* calls it makes) carry no payload here: their handlers set the result on  *)
(* an error and write nothing that is followed.                             *)

MaxPatchKeys == 1   \* keys in the body of a PATCH

PatchKeyOrder ==
    <<"AssetTag", "BootSourceOverrideEnabled", "BootSourceOverrideTarget",
      "IndicatorLed", "Name">>
PatchKeys == {PatchKeyOrder[i] : i \in 1..Len(PatchKeyOrder)}
KeyRank(k) == CHOOSE i \in 1..Len(PatchKeyOrder) : PatchKeyOrder[i] = k

Str(s) == [t |-> "string", s |-> s]
Number == [t |-> "number", s |-> ""]

PatchValues(key) ==
    IF key = "IndicatorLed" THEN {Str("On"), Str("Blink"), Str("Off"), Str("Dim"), Number}
    ELSE IF key = "BootSourceOverrideEnabled" THEN {Str("Once"), Str("Always"), Number}
    ELSE IF key = "BootSourceOverrideTarget" THEN {Str("Pxe"), Str("Floppy"), Number}
    ELSE {Number}

PatchItems == UNION {{<<k, v>> : v \in PatchValues(k)} : k \in PatchKeys}

PatchBodies ==
    {[valid |-> FALSE, items |-> <<>>]}
    \cup {[valid |-> TRUE, items |-> it] :
            it \in {x \in SeqsUpTo(PatchItems, MaxPatchKeys) :
                      \A i \in 1..(Len(x) - 1) : KeyRank(x[i][1]) < KeyRank(x[i + 1][1])}}

allowedBootSourceTarget == {"None", "Pxe", "Hdd", "Cd", "BiosSetup", "UefiShell", "Usb"}
AllowedBootSourceEnabled == {"None", "Disabled", "Once"}
AllowedLedStates == {"On", "Blink", "Off"}

SystemsNodeJson ==
    ("@odata.type" :> <<"#ComputerSystem.v1_5_0.ComputerSystem">>)
    @@ ("@odata.context" :> <<"/redfish/v1/$metadata#ComputerSystem.ComputerSystem">>)
    @@ ("Name" :> <<"Computer System">>)
    @@ ("SystemType" :> <<"Physical">>)

\* an async_method_call: its handler's name, the patch key it was made for,
\* and the scope its captured shared_ptr points to (0: a null pointer)
Call(name, key, id) == [name |-> name, key |-> key, scope |-> id]
CallHandle(c) == <<c.name, c.key>>

\* getComputerSystem: its own call and one by each function it calls
ComputerSystemCalls ==
    {"getComputerSystem", "getBiosVersion", "getBootPolicy", "getMemorySummary",
     "getProcessorSummary", "getSystemUniqueID"}

\* the outcomes of a use of asyncResp-> while asyncResp is null
NullDereference == {"crash", "no effect"}
\* the outcomes of a read through a reference or pointer to a destroyed object
DanglingRead == {"crash", "old value", "garbage"}

\* one outcome of a step of the handler
Outcome(rs, scopes, calls, local, next) ==
    [res |-> rs, scopes |-> scopes, calls |-> calls, local |-> local, next |-> next]

\* "asyncResp->res.jsonValue" gets an error message and the handler returns
MessageThroughLocal(rs, scopes, calls, local, message) ==
    IF local = 0
    THEN {Outcome(rs, scopes, calls, local, IF o = "crash" THEN "crash" ELSE "return") :
            o \in NullDereference}
    ELSE {Outcome([rs EXCEPT !.jsonValue = AddMessageToErrorJson(@, message)],
                  scopes, calls, local, "return")}

\* the item "IndicatorLed" of the loop of doPatch
LedItem(rs, scopes, calls, local, value) ==
    IF value.t # "string"
    THEN MessageThroughLocal(rs, scopes, calls, local, <<"PropertyValueFormatError">>)
    ELSE IF value.s \notin AllowedLedStates
    THEN {Outcome([rs EXCEPT !.jsonValue =
                       AddMessageToJsonRoot(@, <<"PropertyValueNotInList">>)],
                  scopes, calls, local, "return")}
    ELSE LET \* getHostState(asyncResp), getComputerSystem(asyncResp): copies
             reads == {Call(n, "IndicatorLed", local) :
                         n \in {"getHostState"} \cup ComputerSystemCalls}
             \* [asyncResp{std::move(asyncResp)}]: the local gives its copy away
             group == Call("SetLedGroup", "IndicatorLed", local)
             \* the second std::move(asyncResp) moves a null pointer
             state == Call("SetLedState", "IndicatorLed", 0)
             held == {CallHandle(c) : c \in reads \cup {group}}
         IN  {Outcome(rs,
                      IF local = 0 THEN scopes
                      ELSE [scopes EXCEPT ![local] = (@ \ {LocalHandle}) \cup held],
                      calls \cup reads \cup {group, state}, 0, "continue")}

\* the items "BootSourceOverrideEnabled" and "BootSourceOverrideTarget"
BootItem(rs, scopes, calls, local, key, value, name) ==
    IF value.t # "string"
    THEN MessageThroughLocal(rs, scopes, calls, local, <<"PropertyValueFormatError">>)
    ELSE IF \/ key = "BootSourceOverrideTarget" /\ value.s \notin allowedBootSourceTarget
            \/ key # "BootSourceOverrideTarget" /\ value.s \notin AllowedBootSourceEnabled
    THEN {Outcome([rs EXCEPT !.jsonValue =
                       AddMessageToJsonRoot(@, <<"PropertyValueNotInList">>)],
                  scopes, calls, local, "return")}
    ELSE LET \* auto asyncResp = std::make_shared<AsyncResp>(res), a second
             \* variable of that name, in the block of this branch
             id == Len(scopes) + 1
             policy == Call("getBootPolicy", key, id)
             set == Call("SetBoot", key, id)
             s1 == MakeAsyncResp(scopes, InnerHandle)
             s2 == CopyHandle(s1, id, CallHandle(policy))
             s3 == [s2 EXCEPT ![id] = (@ \ {InnerHandle}) \cup {CallHandle(set)}]
         IN  {Outcome([rs EXCEPT !.jsonValue =
                           Put(SystemsNodeJson, "@odata.id",
                               <<"/redfish/v1/Systems/">> \o name)],
                      s3, calls \cup {policy, set}, local, "continue")}

\* one turn of the loop over patch.items()
PatchItem(rs, scopes, calls, local, item, name) ==
    IF item[1] = "IndicatorLed" THEN LedItem(rs, scopes, calls, local, item[2])
    ELSE IF item[1] \in {"BootSourceOverrideEnabled", "BootSourceOverrideTarget"}
    THEN BootItem(rs, scopes, calls, local, item[1], item[2], name)
    ELSE MessageThroughLocal(rs, scopes, calls, local, <<"PropertyNotWritable">>)

\* the handler goes on after a step with outcome o
Proceed(o) ==
    /\ UNCHANGED <<hreads, hfailed, hhistory>>
    /\ IF o.next = "crash"
       THEN /\ hcrashed' = TRUE
            /\ UNCHANGED <<hres, hscopes, hcalls, hlocal, hpc>>
       ELSE IF o.next = "return"
       THEN /\ \E out \in {FunctionReturn(o.res, o.scopes, o.local)} :
                   hres' = out.res /\ hscopes' = out.scopes
            /\ hcalls' = o.calls
            /\ hlocal' = 0
            /\ hpc' = [state |-> "returned", item |-> 0]
            /\ UNCHANGED hcrashed
       ELSE /\ hres' = o.res
            /\ hscopes' = o.scopes
            /\ hcalls' = o.calls
            /\ hlocal' = o.local
            /\ hpc' = [state |-> "loop", item |-> hpc.item + 1]
            /\ UNCHANGED hcrashed

\* Systems::doPatch from its entry to the loop
SystemsDoPatch(params, body) ==
    /\ hreq.handler = "none"
    /\ ~hcrashed
    /\ hreq' = [handler |-> "Systems::doPatch", params |-> params, body |-> body]
    /\ \E scopes \in {MakeAsyncResp(hscopes, LocalHandle)} :
           Proceed(IF Len(params) # 1
                   THEN Outcome(SetResult(hres, "internal_server_error"),
                                scopes, hcalls, Len(scopes), "return")
                   ELSE IF ~body.valid
                   THEN \* json_util::processJsonFromRequest returned false; what
                        \* it wrote into the response is not followed
                        Outcome(hres, scopes, hcalls, Len(scopes), "return")
                   ELSE Outcome([hres EXCEPT !.jsonValue = SystemsNodeJson],
                                scopes, hcalls, Len(scopes), "continue"))
    /\ UNCHANGED <<pipelineVars, mergedLiterals, proj, upload, calc>>

\* one item of the body
SystemsPatchItem ==
    /\ hpc.state = "loop"
    /\ hpc.item <= Len(hreq.body.items)
    /\ ~hcrashed
    /\ \E o \in PatchItem(hres, hscopes, hcalls, hlocal, hreq.body.items[hpc.item],
                          hreq.params[1]) :
           Proceed(o)
    /\ UNCHANGED hreq
    /\ UNCHANGED <<pipelineVars, mergedLiterals, proj, upload, calc>>

\* the loop is over and doPatch returns
SystemsPatchEnd ==
    /\ hpc.state = "loop"
    /\ hpc.item > Len(hreq.body.items)
    /\ ~hcrashed
    /\ Proceed(Outcome(hres, hscopes, hcalls, hlocal, "return"))
    /\ UNCHANGED hreq
    /\ UNCHANGED <<pipelineVars, mergedLiterals, proj, upload, calc>>

\* the value the body gives a key
ItemValue(key) ==
    LET i == CHOOSE n \in 1..Len(hreq.body.items) : hreq.body.items[n][1] = key
    IN  hreq.body.items[i][2]

CallbackResult(rs, crash) == [res |-> rs, crash |-> crash, issued |-> {}]

\* the handler of a completed call, before its closure is destroyed
Callback(rs, c, ec) ==
    IF c.name = "SetLedGroup" /\ ec = 0 THEN {CallbackResult(rs, FALSE)}
    ELSE IF c.scope = 0
    THEN {CallbackResult(rs, o = "crash") : o \in NullDereference}
    ELSE IF ec # 0
    THEN {CallbackResult(SetResult(rs, "internal_server_error"), FALSE)}
    ELSE IF c.name = "SetLedState"
    THEN {CallbackResult([rs EXCEPT !.jsonValue =
                              Put(@, "IndicatorLED", ItemValue(c.key).s)], FALSE)}
    ELSE IF c.name = "SetBoot"
    THEN \* [&key, reqBootOverride, ...]: key and *reqBootOverride are gone
         {CallbackResult(
              IF o = "crash" THEN rs
              ELSE [rs EXCEPT !.jsonValue =
                        Put(@, "Boot",
                            Put(IF "Boot" \in DOMAIN @ THEN @["Boot"] ELSE EmptyObject,
                                IF o = "garbage" THEN "?" ELSE c.key,
                                IF o = "garbage" THEN "?" ELSE ItemValue(c.key).s))],
              o = "crash") : o \in DanglingRead}
    ELSE {CallbackResult(rs, FALSE)}

----------------------------------------------------------------------------
(* NetworkProtocol::doPatch with changeProtocolInfo (network_protocol.hpp). *)
(* The body is an object whose items are protocols; the value of a          *)
(* protocol is an object of settings or something else.                     *)

\* the keys of protocolToDBus, and the keys of a body in the order of its items
protocolToDBus == {"SSH", "HTTPS", "IPMI"}
NetPatchKeyOrder == <<"HTTPS", "NTP", "SSH">>
NetSettingOrder == <<"Oem", "Port", "ProtocolEnabled">>
RankIn(order, k) == CHOOSE i \in 1..Len(order) : order[i] = k
SortedBy(order, items) ==
    \A i \in 1..(Len(items) - 1) : RankIn(order, items[i][1]) < RankIn(order, items[i + 1][1])

Bool == [t |-> "boolean", s |-> ""]
Object(items) == [t |-> "object", s |-> "", items |-> items]

NetSettingValues(key) ==
    IF key = "ProtocolEnabled" THEN {Bool, Number}
    ELSE IF key = "Port" THEN {Number, Str("22")}
    ELSE {Number}

NetSettings ==
    UNION {{<<NetSettingOrder[i], v>> : v \in NetSettingValues(NetSettingOrder[i])} :
             i \in 1..Len(NetSettingOrder)}

NetInputs ==
    {Number} \cup {Object(it) : it \in {x \in SeqsUpTo(NetSettings, MaxPatchKeys) :
                                          SortedBy(NetSettingOrder, x)}}

NetPatchItems ==
    {<<NetPatchKeyOrder[i], v>> : i \in 1..Len(NetPatchKeyOrder), v \in NetInputs}

NetPatchBodies ==
    {[valid |-> FALSE, items |-> <<>>]}
    \cup {[valid |-> TRUE, items |-> it] :
            it \in {x \in SeqsUpTo(NetPatchItems, MaxPatchKeys) :
                      SortedBy(NetPatchKeyOrder, x)}}

\* messages::addMessageToJson(json, message, "/" + field)
AddMessageToJson(json, message, field) ==
    Put(json, field \o "@Message.ExtendedInfo", message)

NetPatchCallNames == {"UnitAction socket", "UnitAction service"}

\* the calls changeProtocolInfo makes for one "ProtocolEnabled"
ProtocolEnabledCalls(protocol, local) ==
    {Call("UnitAction socket", protocol, local)}
    \cup (IF protocol # "SSH" THEN {Call("UnitAction service", protocol, local)} ELSE {})

\* the loop of changeProtocolInfo over input.items() from item i on; fileOk
\* tells whether the socket file of the protocol can be opened
RECURSIVE ProtocolSettings(_, _, _, _, _, _, _)
ProtocolSettings(rs, calls, local, protocol, items, i, fileOk) ==
    IF i > Len(items) THEN [res |-> rs, calls |-> calls]
    ELSE IF items[i][1] = "ProtocolEnabled"
    THEN IF items[i][2].t # "boolean"
         THEN [res |-> [rs EXCEPT !.jsonValue =
                            AddMessageToErrorJson(@, <<"PropertyValueFormatError">>)],
               calls |-> calls]
         ELSE ProtocolSettings(rs, calls \cup ProtocolEnabledCalls(protocol, local),
                               local, protocol, items, i + 1, fileOk)
    ELSE IF items[i][1] = "Port"
    THEN IF items[i][2].t # "number"
         THEN [res |-> [rs EXCEPT !.jsonValue =
                            AddMessageToErrorJson(@, <<"PropertyValueFormatError">>)],
               calls |-> calls]
         ELSE IF ~fileOk
         THEN [res |-> [rs EXCEPT !.jsonValue =
                            AddMessageToJson(@, <<"InternalError">>, protocol)],
               calls |-> calls]
         ELSE ProtocolSettings(rs, calls, local, protocol, items, i + 1, fileOk)
    ELSE [res |-> SetResult([rs EXCEPT !.jsonValue =
                                 AddMessageToErrorJson(@, <<"PropertyNotWritable">>)],
                            "bad_request"),
          calls |-> calls]

changeProtocolInfo(rs, calls, local, protocol, input, fileOk) ==
    IF input.t # "object"
    THEN [res |-> [rs EXCEPT !.jsonValue =
                       AddMessageToJson(@, <<"PropertyValueTypeError">>, protocol)],
          calls |-> calls]
    ELSE ProtocolSettings(rs, calls, local, protocol, input.items, 1, fileOk)

\* the loop of doPatch over patchRequest.items() from item i on
RECURSIVE NetPatchLoop(_, _, _, _, _, _)
NetPatchLoop(rs, calls, local, items, i, fileOk) ==
    IF i > Len(items) THEN [res |-> rs, calls |-> calls]
    ELSE IF items[i][1] \in protocolToDBus
    THEN LET out == changeProtocolInfo(rs, calls, local, items[i][1], items[i][2], fileOk)
         IN  NetPatchLoop(out.res, out.calls, local, items, i + 1, fileOk)
    ELSE NetPatchLoop(rs, calls, local, items, i + 1, fileOk)

\* NetworkProtocol::doPatch from entry to return: every handler of a call
\* holds a copy of asyncResp ([asyncResp, &protocol])
NetworkProtocolDoPatch(body, fileOk) ==
    /\ hreq.handler = "none"
    /\ ~hcrashed
    /\ hreq' = [handler |-> "NetworkProtocol::doPatch", params |-> <<>>, body |-> body]
    /\ \E id \in {Len(hscopes) + 1} :
       \E loop \in {IF body.valid
                    THEN NetPatchLoop(hres, hcalls, id, body.items, 1, fileOk)
                    ELSE [res |-> hres, calls |-> hcalls]} :
       \E held \in {[MakeAsyncResp(hscopes, LocalHandle) EXCEPT
                        ![id] = @ \cup {CallHandle(c) : c \in loop.calls}]} :
           Proceed(Outcome(loop.res, held, loop.calls, id, "return"))
    /\ UNCHANGED <<pipelineVars, mergedLiterals, proj, upload, calc>>

\* the variables the handler of call c reads that died with doPatch
NetPatchDeadReads(c, ec) ==
    IF c.name = "UnitAction socket" \/ ec # 0 THEN {"protocol"} ELSE {}

\* the handler of a call of changeProtocolInfo: "/" + protocol is read
\* through the reference to the key of an item of patchRequest
NetPatchCallback(rs, c, ec) ==
    IF c.name = "UnitAction service" /\ ec = 0 THEN {CallbackResult(rs, FALSE)}
    ELSE {CallbackResult(
              IF o = "crash" THEN rs
              ELSE [rs EXCEPT !.jsonValue =
                        AddMessageToJson(@, IF ec # 0 THEN <<"InternalError">>
                                            ELSE <<"Success">>,
                                         IF o = "garbage" THEN "?" ELSE c.key)],
              o = "crash") : o \in DanglingRead}

----------------------------------------------------------------------------
(* Functions of logservices.hpp and the firmware version of Manager::doGet. *)
(* A byte is a number 0..255; a string of AdditionalData,                   *)
(* "STRING=XX XX ... XX", is the sequence of its 16 bytes; a uint32_t is    *)
(* the pair <<high 16 bits, low 16 bits>>.                                  *)

Bytes == 0..255

\* sensorTypeList: std::array<const char *, 46>, index 0 first
sensorTypeList ==
    <<"Reserved", "Temperature", "Voltage", "Current", "Fan",
      "Physical Chassis Security", "Platform Security Violation Attempt",
      "Processor", "Power Supply / Converter", "PowerUnit", "CoolingDevice",
      "Other Units-based Sensor", "Memory", "Drive Slot/Bay", "POST Memory Resize",
      "System Firmware Progress", "Event Logging Disabled", "Watchdog",
      "System Event", "Critical Interrupt", "Button/Switch", "Module/Board",
      "Microcontroller/Coprocessor", "Add-in Card", "Chassis", "ChipSet",
      "Other FRU", "Cable/Interconnect", "Terminator", "SystemBoot/Restart",
      "Boot Error", "BaseOSBoot/InstallationStatus", "OS Stop/Shutdown",
      "Slot/Connector", "System ACPI PowerState", "Reserved", "Platform Alert",
      "Entity Presence", "Monitor ASIC/IC", "LAN", "Management Subsystem Health",
      "Battery", "Reserved", "Version Change", "FRUState", "OEM">>

\* data & mask for a mask of the form 2^k - 1, and the test of bit 7
LowBits(data, width) == data % (2 ^ width)
Bit7(data) == (data \div 128) % 2 = 1

\* getEventDirType: the words of the string it returns
getEventDirType(data) ==
    LET eventDir == Bit7(data)
        eventType == LowBits(data, 6)
    IN  <<IF eventDir THEN "Deassertion" ELSE "Assertion",
          IF eventType = 1 THEN "Threshold"
          ELSE IF eventType >= 2 /\ eventType <= 12 THEN "Discrete"
          ELSE IF eventType = 111 THEN "Sensor-specific"
          ELSE "OEM">>

\* what a function returns, or that the process died in it
Returned(ret) == [ret |-> ret, crash |-> FALSE, outside |-> FALSE]
ReadOutside == {[ret |-> <<"garbage">>, crash |-> FALSE, outside |-> TRUE],
                [ret |-> <<>>, crash |-> TRUE, outside |-> TRUE]}

\* s.substr(offset, 2) read as a hexadecimal number: the byte at the offset
SubSEL(s, offset) == s[((offset - 7) \div 3) + 1]

\* the two hexadecimal digits of a byte
HexDigits(b) == <<b \div 16, b % 16>>

\* getSELSpecificInfo: the outcomes of a call.  sensorTypeList[data] has no
\* bounds check: an index past the array reads whatever lies behind it
getSELSpecificInfo(s, field) ==
    IF field = 0
    THEN LET data == SubSEL(s, 37)
         IN  IF data < Len(sensorTypeList) THEN {Returned(<<sensorTypeList[data + 1]>>)}
             ELSE ReadOutside
    ELSE IF field = 1 THEN {Returned(HexDigits(SubSEL(s, 40)))}
    ELSE IF field = 2 THEN {Returned(getEventDirType(SubSEL(s, 43)))}
    ELSE {Returned(<<>>)}

\* a SEL string with the given bytes 11, 12 and 13
SelData(b11, b12, b13) ==
    [i \in 1..16 |-> IF i = 11 THEN b11 ELSE IF i = 12 THEN b12
                     ELSE IF i = 13 THEN b13 ELSE 0]

\* std::to_string of a number: its decimal digits
RECURSIVE to_string(_)
to_string(n) ==
    IF n < 10 THEN <<n>> ELSE to_string(n \div 10) \o <<n % 10>>

\* patchVersion of a uint32_t s = <<high, low>>: the three numbers, and
\* whether major * 256 * 256, computed in int, went past the largest int
PatchVersionParts(s) ==
    LET major == s[1]                       \* *s / (256 * 256)
        overflow == major * 256 > 2147483647 \div 256   \* past the largest int
        minor == s[2] \div 256              \* (*s - major * 256 * 256) / 256
        build == s[2] - minor * 256         \* *s - major * 256 * 256 - minor * 256
    IN  [major |-> major, minor |-> minor, build |-> build, overflow |-> overflow]

\* fwVersion: the outcomes of the formatting.  A signed overflow is
\* undefined: the build may wrap, which gives the numbers above, or not
FirmwareVersion(majorVersion, minorVersion, s) ==
    LET p == PatchVersionParts(s)
        text == to_string(majorVersion) \o <<".">> \o to_string(minorVersion) \o <<"-">>
                \o to_string(p.major) \o <<".">> \o to_string(p.minor) \o <<".">>
                \o to_string(p.build)
    IN  IF p.overflow
        THEN {[ret |-> text, crash |-> FALSE, outside |-> FALSE, overflow |-> TRUE],
              [ret |-> <<"garbage">>, crash |-> FALSE, outside |-> FALSE, overflow |-> TRUE]}
        ELSE {[ret |-> text, crash |-> FALSE, outside |-> FALSE, overflow |-> FALSE]}

----------------------------------------------------------------------------
(* The GET handlers of Systems (systems.hpp), Manager (managers.hpp) and    *)
(* NetworkProtocol (network_protocol.hpp).  A reply carries an error code   *)
(* or a payload; of a payload only what decides the handler's branches is   *)
(* kept.                                                                    *)

MaxLogEntries == 2  \* <object, connection> pairs in the reply to the log GetSubTree

LogEntryKeys == <<"entry 1", "entry 2", "entry 3", "entry 4">>

\* json[k1][k2] = v
Put2(json, k1, k2, v) ==
    Put(json, k1, Put(IF k1 \in DOMAIN json THEN json[k1] ELSE EmptyObject, k2, v))

\* a handler's result: the response, whether the process died, the calls issued
CallbackIssues(rs, issued) == [res |-> rs, crash |-> FALSE, issued |-> issued]

NoPayload == "none"

\* the values held by the variants of a log entry's properties
Uint32(n) == [t |-> "uint32", v |-> n]
Uint64(n) == [t |-> "uint64", v |-> n]
StringVector(v) == [t |-> "vector", v |-> v]

LoggingEntry == "xyz.openbmc_project.Logging.Entry"

\* what the k-th object of a reply holds, so that no two objects hold the same
LogLevels ==
    <<"xyz.openbmc_project.Logging.Entry.Level.Critical",
      "xyz.openbmc_project.Logging.Entry.Level.Warning",
      "xyz.openbmc_project.Logging.Entry.Level.Notice">>
LogMessages == <<"message of entry 1", "message of entry 2", "message of entry 3">>
LogIds == {Uint32(1), Uint32(2), Str("1")}
LogAdditionalData(k) ==
    {Str("not a vector"), StringVector(<<SelData(0, 0, 0)>>),
     StringVector(<<SelData(0, 0, 0), SelData(k, k, k)>>)}

\* the objects of /xyz/openbmc_project/logging, in the order of their paths:
\* the interface of the object and the properties of the interface by name
LogObjects(k) ==
    {[interface |-> "xyz.openbmc_project.Object.Delete", props |-> EmptyObject]}
    \cup
    {[interface |-> LoggingEntry,
      props |-> [n \in ids \cup add \cup rest |->
                    IF n = "Id" THEN id
                    ELSE IF n = "AdditionalData" THEN a
                    ELSE IF n = "Message" THEN Str(LogMessages[k])
                    ELSE IF n = "Resolved" THEN [t |-> "boolean", s |-> ""]
                    ELSE IF n = "Severity" THEN Str(LogLevels[k])
                    ELSE Uint64(k)]] :
        id \in LogIds, a \in LogAdditionalData(k),
        ids \in {{}, {"Id"}}, add \in {{}, {"AdditionalData"}},
        rest \in {{}, {"Message", "Resolved", "Severity", "Timestamp"}}}

RECURSIVE LogRepliesOfLen(_)
LogRepliesOfLen(n) ==
    IF n = 0 THEN {<<>>}
    ELSE {Append(r, o) : r \in LogRepliesOfLen(n - 1), o \in LogObjects(n)}

\* the replies of at most n objects
LogReplies(n) == UNION {LogRepliesOfLen(k) : k \in 0..n}

LogEntryCallNames == {"GetManagedObjects Logging"}

\* the Asserted properties of the groups with "enclosure_identify" in their
\* path that the reply to getLedGroupIdentify holds, in the order of the reply
LedGroupReplies ==
    {<<>>, <<"true">>, <<"false">>, <<"not a bool">>, <<"false", "true">>}

\* the variant a Severity query returns: <<type held, string held>>
SeverityLevels ==
    {"Emergency", "Alert", "Critical", "Error", "Warning", "Notice"}
SeverityString(level) ==
    <<"string", <<"xyz", ".", "openbmc_project", ".", "Logging", ".", "Entry", ".",
                  "Level", ".", level>> >>
SeverityVariants ==
    {<<"int64", <<>> >>, <<"string", <<"Critical">> >>}
    \cup {SeverityString(level) : level \in SeverityLevels}

SystemsGetCallNames == {"getLedGroupIdentify", "getLedIdentify", "getHostHealth", "Severity"}
ManagerGetCallNames == {"GetAll Item.Bmc", "ActiveState dropbear"}
NetGetCallNames == {"Listen", "ActiveState"}

\* what a reply without error code can carry, as far as the handler looks;
\* for the log GetSubTree, the number of <object, connection> pairs
Payloads(c) ==
    IF c.name = "getLedGroupIdentify" THEN LedGroupReplies
    ELSE IF c.name = "getLedIdentify" THEN {"", "Lit"}
    ELSE IF c.name = "getHostHealth" THEN 0..MaxLogEntries
    ELSE IF c.name = "Severity" THEN SeverityVariants
    ELSE IF c.name = "ActiveState dropbear" THEN {"not a string", "active", "inactive"}
    ELSE IF c.name = "Listen" THEN {"empty", "not a number", "port"}
    ELSE IF c.name = "ActiveState" THEN {"not a string", "active"}
    ELSE IF c.name = "GetAll State.BMC" THEN {"RequestedBMCTransition", "CurrentBMCState"}
    ELSE IF c.name \in LogEntryCallNames THEN LogReplies(MaxLogEntries)
    ELSE {NoPayload}

SystemsNames == {<<"system">>}

\* severity_value->substr(severity_value->rfind(".") + 1), on a string given
\* as its pieces: what follows the last "."
EntryLevel(severity_value) ==
    LET dots == {i \in 1..Len(severity_value) : severity_value[i] = "."}
    IN  IF dots = {} THEN severity_value
        ELSE SubSeq(severity_value,
                    (CHOOSE i \in dots : \A j \in dots : j <= i) + 1,
                    Len(severity_value))

\* "Log severity level -> Health value", the table in getHostHealth
HealthOfLevel(entryLevel) ==
    IF entryLevel \in {<<"Emergency">>, <<"Alert">>, <<"Critical">>} THEN "Critical"
    ELSE IF entryLevel \in {<<"Error">>, <<"Warning">>} THEN "Warning"
    ELSE "OK"

\* the graver of two health values
Graver(a, b) ==
    IF "Critical" \in {a, b} THEN "Critical"
    ELSE IF "Warning" \in {a, b} THEN "Warning"
    ELSE "OK"

\* Systems::doGet from entry to return
SystemsDoGet(params) ==
    /\ hreq.handler = "none"
    /\ ~hcrashed
    /\ hreq' = [hreq EXCEPT !.handler = "Systems::doGet", !.params = params]
    /\ IF Len(params) # 1
       THEN /\ hres' = ResEnd(SetResult(hres, "internal_server_error"))
            /\ hpc' = [state |-> "returned", item |-> 0]
            /\ UNCHANGED <<hlocal, hscopes, hcalls, hcrashed, hreads, hfailed, hhistory>>
       ELSE \E id \in {Len(hscopes) + 1} :
            \E issued \in {{Call(n, "", id) :
                              n \in {"getLedGroupIdentify", "getHostState", "getHostHealth"}
                                    \cup ComputerSystemCalls}} :
            \E j1 \in {Put(Put(SystemsNodeJson, "@odata.id",
                               <<"/redfish/v1/Systems/">> \o params[1]),
                           "Id", params[1])} :
                Proceed(Outcome(
                    \* getHostHealth: by default, the Health is OK
                    [hres EXCEPT !.jsonValue = Put2(j1, "Status", "Health", "OK")],
                    [MakeAsyncResp(hscopes, LocalHandle) EXCEPT
                        ![id] = @ \cup {CallHandle(c) : c \in issued}],
                    hcalls \cup issued, id, "return"))
    /\ UNCHANGED <<pipelineVars, mergedLiterals, proj, upload, calc>>

LedGroupKeys == <<"group 1", "group 2", "group 3">>

\* a callback that asks for the LED state whatever Asserted is
LedGroupCallbackAlways(rs, c, groups) ==
    CallbackIssues(rs, {Call("getLedIdentify", LedGroupKeys[i], c.scope) :
                          i \in 1..Len(groups)})

\* callback(asserted, aResp) of Systems::doGet, called by the handler of
\* getLedGroupIdentify for each Asserted property it finds (false when the
\* property holds no bool)
LedGroupCallback(rs, c, groups) ==
    CallbackIssues(
        IF \E i \in 1..Len(groups) : groups[i] # "true"
        THEN [rs EXCEPT !.jsonValue = Put(@, "IndicatorLED", "Off")]
        ELSE rs,
        {Call("getLedIdentify", LedGroupKeys[i], c.scope) :
           i \in {n \in 1..Len(groups) : groups[n] = "true"}})

\* the handlers of the calls of getLedGroupIdentify, getLedIdentify and
\* getHostHealth
SystemsGetCallback(rs, c, ec, payload) ==
    IF c.name = "getLedGroupIdentify"
    THEN IF ec # 0 THEN {CallbackIssues(SetResult(rs, "internal_server_error"), {})}
         ELSE {LedGroupCallback(rs, c, payload)}
    ELSE IF c.name = "getLedIdentify"
    THEN IF ec # 0 THEN {CallbackIssues(SetResult(rs, "internal_server_error"), {})}
         ELSE IF payload # ""
         THEN {CallbackIssues([rs EXCEPT !.jsonValue = Put(@, "IndicatorLED", payload)], {})}
         ELSE {CallbackIssues(rs, {})}
    ELSE IF c.name = "getHostHealth"
    THEN IF ec # 0 THEN {CallbackIssues(rs, {})}    \* "No log entry"
         ELSE {CallbackIssues(rs, {Call("Severity", LogEntryKeys[i], c.scope) :
                                     i \in 1..payload})}
    ELSE \* the handler of the Severity query of one log entry
         IF ec # 0 \/ payload[1] # "string" THEN {CallbackIssues(rs, {})}
         ELSE LET entryLevel == EntryLevel(payload[2])
                  warned == IF entryLevel \in {<<"Error">>, <<"Warning">>}
                            THEN [rs EXCEPT !.jsonValue =
                                      Put2(@, "Status", "Health", "Warning")]
                            ELSE rs
              IN  IF entryLevel \in {<<"Critical">>, <<"Alert">>, <<"Emergency">>}
                  THEN {CallbackIssues([warned EXCEPT !.jsonValue =
                                            Put2(@, "Status", "Health", "Critical")], {})}
                  ELSE {CallbackIssues(warned, {})}

ManagerNodeJson ==
    ("@odata.id" :> <<"/redfish/v1/Managers/bmc">>)
    @@ ("@odata.type" :> <<"#Manager.v1_3_0.Manager">>)
    @@ ("Id" :> <<"bmc">>)
    @@ ("Name" :> <<"OpenBmc Manager">>)

CommandShell ==
    ("ConnectTypesSupported" :> <<>>) @@ ("ServiceEnabled" :> TRUE)

\* Manager::doGet from entry to return
ManagerDoGet ==
    /\ hreq.handler = "none"
    /\ ~hcrashed
    /\ hreq' = [hreq EXCEPT !.handler = "Manager::doGet"]
    /\ \E id \in {Len(hscopes) + 1} :
       \E issued \in {{Call(n, "", id) : n \in ManagerGetCallNames}} :
           Proceed(Outcome(
               [hres EXCEPT !.jsonValue =
                    Put(Put(ManagerNodeJson, "CommandShell", CommandShell),
                        "DateTime", <<"now">>)],
               [MakeAsyncResp(hscopes, LocalHandle) EXCEPT
                   ![id] = @ \cup {CallHandle(c) : c \in issued}],
               hcalls \cup issued, id, "return"))
    /\ UNCHANGED <<pipelineVars, mergedLiterals, proj, upload, calc>>

\* the handlers of the two calls of Manager::doGet
ManagerGetCallback(rs, c, ec, payload) ==
    IF c.name = "GetAll Item.Bmc"
    THEN IF ec # 0 THEN {CallbackIssues(SetResult(rs, "internal_server_error"), {})}
         ELSE {CallbackIssues([rs EXCEPT !.jsonValue =
                                   Put(@, "FirmwareVersion", <<"version">>)], {})}
    ELSE IF ec # 0 \/ payload = "not a string"
    THEN {CallbackIssues([rs EXCEPT !.jsonValue =
                              AddMessageToJson(@, <<"InternalError">>, "/CommandShell/SSH")],
                         {})}
    ELSE {CallbackIssues(
              [rs EXCEPT !.jsonValue =
                   Put(@, "CommandShell",
                       [@["CommandShell"] EXCEPT
                           !["ConnectTypesSupported"] = Append(@, "SSH"),
                           !["ServiceEnabled"] = IF payload # "active" THEN FALSE ELSE @])],
              {})}

NetworkProtocolNodeJson ==
    ("@odata.type" :> <<"#ManagerNetworkProtocol.v1_1_0.ManagerNetworkProtocol">>)
    @@ ("@odata.id" :> <<"/redfish/v1/Managers/bmc/NetworkProtocol">>)
    @@ ("Id" :> <<"NetworkProtocol">>)
    @@ ("HostName" :> <<"host">>)

\* NetworkProtocol::doGet with getData, from entry to return
NetworkProtocolDoGet ==
    /\ hreq.handler = "none"
    /\ ~hcrashed
    /\ hreq' = [hreq EXCEPT !.handler = "NetworkProtocol::doGet"]
    /\ \E id \in {Len(hscopes) + 1} :
       \E issued \in {{Call(n, service, id) :
                         n \in NetGetCallNames, service \in protocolToDBus}} :
           Proceed(Outcome(
               [hres EXCEPT !.jsonValue = NetworkProtocolNodeJson],
               [MakeAsyncResp(hscopes, LocalHandle) EXCEPT
                   ![id] = @ \cup {CallHandle(c) : c \in issued}],
               hcalls \cup issued, id, "return"))
    /\ UNCHANGED <<pipelineVars, mergedLiterals, proj, upload, calc>>

\* the handlers of the two calls getData makes for a protocol
\* ([asyncResp, service{std::string(kv.first)}])
NetGetCallback(rs, c, ec, payload) ==
    IF ec # 0
    THEN {CallbackIssues([rs EXCEPT !.jsonValue =
                              AddMessageToJson(@, <<"InternalError">>, c.key)], {})}
    ELSE IF c.name = "Listen"
    THEN IF payload = "empty" THEN {CallbackIssues(rs, {})}
         ELSE IF payload = "not a number"
         THEN {CallbackIssues([rs EXCEPT !.jsonValue = Put2(@, c.key, "Port", "null")], {})}
         ELSE {CallbackIssues([rs EXCEPT !.jsonValue = Put2(@, c.key, "Port", "port")], {})}
    ELSE IF payload = "not a string" THEN {CallbackIssues(rs, {})}
    ELSE {CallbackIssues([rs EXCEPT !.jsonValue =
                              Put2(@, c.key, "ProtocolEnabled", payload = "active")], {})}

----------------------------------------------------------------------------
(* The POST handlers of the Reset actions (systems.hpp, managers.hpp) and   *)
(* of the BIOS log ClearLog action (bioslogservices.hpp)                    *)

\* the keys of a Reset body in the order of its items, and their values
ResetKeyOrder == <<"Delay", "ResetType", "Timeout">>
ChassisResetTypes == {"ForceOff", "ForceRestart"}
HostResetTypes == {"On", "GracefulShutdown", "GracefulRestart"}
ResetValues(key) ==
    IF key = "ResetType"
    THEN {Number, Str("PushPowerButton")}
         \cup {Str(t) : t \in ChassisResetTypes \cup HostResetTypes}
    ELSE {Number}
ResetItems ==
    UNION {{<<ResetKeyOrder[i], v>> : v \in ResetValues(ResetKeyOrder[i])} :
              i \in 1..Len(ResetKeyOrder)}
ResetBodies ==
    {[valid |-> FALSE, items |-> <<>>]}
    \cup {[valid |-> TRUE, items |-> it] :
            it \in {x \in SeqsUpTo(ResetItems, Len(ResetKeyOrder)) :
                      SortedBy(ResetKeyOrder, x)}}

SystemResetCallNames == {"Set RequestedPowerTransition", "Set RequestedHostTransition"}

\* the loop of SystemActionsReset::doPost over post.items() from item i on
RECURSIVE SystemResetLoop(_, _, _, _, _)
SystemResetLoop(rs, calls, local, items, i) ==
    IF i > Len(items) THEN [res |-> rs, calls |-> calls]
    ELSE IF items[i][1] # "ResetType"
    THEN SystemResetLoop([rs EXCEPT !.jsonValue =
                              AddMessageToErrorJson(@, <<"ActionParameterUnknown">>)],
                         calls, local, items, i + 1)
    ELSE IF items[i][2].t # "string"
    THEN [res |-> ResEnd([SetResult(rs, "bad_request") EXCEPT !.jsonValue =
                              AddMessageToErrorJson(@, <<"ActionParameterValueFormatError">>)]),
          calls |-> calls]
    ELSE IF items[i][2].s \in ChassisResetTypes
    THEN [res |-> rs,
          calls |-> calls \cup {Call("Set RequestedPowerTransition", "ResetType", local)}]
    ELSE IF items[i][2].s \in HostResetTypes
    THEN SystemResetLoop(rs,
                         calls \cup {Call("Set RequestedHostTransition", "ResetType", local)},
                         local, items, i + 1)
    ELSE [res |-> ResEnd([SetResult(rs, "bad_request") EXCEPT !.jsonValue =
                              AddMessageToErrorJson(@, <<"ActionParameterUnknown">>)]),
          calls |-> calls]

\* SystemActionsReset::doPost from entry to return
SystemActionsResetDoPost(body) ==
    /\ hreq.handler = "none"
    /\ ~hcrashed
    /\ hreq' = [handler |-> "SystemActionsReset::doPost", params |-> <<>>, body |-> body]
    /\ IF ~body.valid
       THEN \* json_util::processJsonFromRequest returned false; what it wrote
            \* into the response is not followed
            Proceed(Outcome(hres, hscopes, hcalls, 0, "return"))
       ELSE \E id \in {Len(hscopes) + 1} :
            \E loop \in {SystemResetLoop(hres, hcalls, id, body.items, 1)} :
                Proceed(Outcome(loop.res,
                                [MakeAsyncResp(hscopes, LocalHandle) EXCEPT
                                    ![id] = @ \cup {CallHandle(c) : c \in loop.calls}],
                                loop.calls, id, "return"))
    /\ UNCHANGED <<pipelineVars, mergedLiterals, proj, upload, calc>>

\* the handler of the Set call of SystemActionsReset::doPost
SystemResetCallback(rs, c, ec) ==
    {CallbackIssues(SetResult(rs, IF ec # 0 THEN "internal_server_error"
                                  ELSE "no_content"), {})}

\* the bodies of a Manager.Reset: a text that does not parse, or an object
ManagerResetItems ==
    {<<"Delay", Number>>, <<"ResetType", Str("GracefulRestart")>>,
     <<"ResetType", Str("ForceRestart")>>}
ManagerResetBodies ==
    {[valid |-> FALSE, items |-> <<>>]}
    \cup {[valid |-> TRUE, items |-> it] :
            it \in {x \in SeqsUpTo(ManagerResetItems, Len(ResetKeyOrder) - 1) :
                      SortedBy(ResetKeyOrder, x)}}

ManagerResetCallNames == {"GetAll State.BMC", "Set RequestedBMCTransition"}

\* ManagerActionsReset::doPost with doBMCGracefulRestart, from entry to return
ManagerActionsResetDoPost(body) ==
    /\ hreq.handler = "none"
    /\ ~hcrashed
    /\ hreq' = [handler |-> "ManagerActionsReset::doPost", params |-> <<>>, body |-> body]
    /\ IF /\ body.valid
          /\ Len(body.items) = 1
          /\ body.items[1] = <<"ResetType", Str("GracefulRestart")>>
       THEN \E id \in {Len(hscopes) + 1} :
            \E c \in {Call("GetAll State.BMC", "", id)} :
                Proceed(Outcome(hres,
                                [MakeAsyncResp(hscopes, LocalHandle) EXCEPT
                                    ![id] = @ \cup {CallHandle(c)}],
                                hcalls \cup {c}, id, "return"))
       ELSE Proceed(Outcome(SetResult(hres, "bad_request"), hscopes, hcalls, 0, "return"))
    /\ UNCHANGED <<pipelineVars, mergedLiterals, proj, upload, calc>>

\* handlers that issue the Set although the property is absent
ManagerResetCallbackSetAnyway(rs, c, ec, payload) ==
    IF ec # 0 THEN {CallbackIssues(SetResult(rs, "internal_server_error"), {})}
    ELSE IF c.name = "GetAll State.BMC"
    THEN {CallbackIssues(IF payload = "RequestedBMCTransition" THEN rs
                         ELSE SetResult(rs, "not_found"),
                         {Call("Set RequestedBMCTransition", "", c.scope)})}
    ELSE {CallbackIssues(rs, {})}

\* the handlers of the two calls of doBMCGracefulRestart
ManagerResetCallback(rs, c, ec, payload) ==
    IF ec # 0 THEN {CallbackIssues(SetResult(rs, "internal_server_error"), {})}
    ELSE IF c.name = "GetAll State.BMC"
    THEN IF payload = "RequestedBMCTransition"
         THEN {CallbackIssues(rs, {Call("Set RequestedBMCTransition", "", c.scope)})}
         ELSE {CallbackIssues(SetResult(rs, "not_found"), {})}
    ELSE {CallbackIssues(rs, {})}

\* BIOSLogServiceActionsClear::doPost from entry to return
BIOSLogServiceActionsClearDoPost ==
    /\ hreq.handler = "none"
    /\ ~hcrashed
    /\ hreq' = [hreq EXCEPT !.handler = "BIOSLogServiceActionsClear::doPost"]
    /\ Proceed(Outcome(hres, hscopes, hcalls, 0, "return"))
    /\ UNCHANGED <<pipelineVars, mergedLiterals, proj, upload, calc>>

\* the variables the handler of a call of Systems::doPatch reads that died
\* with doPatch
----------------------------------------------------------------------------
(* LogEntry::doGet (logservices.hpp) and the handler of its                 *)
(* GetManagedObjects call                                                   *)

LogEntryNodeJson ==
    ("@odata.type" :> <<"#LogEntry.v1_3_0.LogEntry">>)
    @@ ("@odata.context" :> <<"/redfish/v1/$metadata#LogEntry.LogEntry">>)
    @@ ("EntryType" :> <<"SEL">>)

\* the ids asked for, as the digits of the URL segment
EntryIds == {<<1>>, <<2>>, <<0, 1>>}

\* LogEntry::doGet from entry to return
LogEntryDoGet(params) ==
    /\ hreq.handler = "none"
    /\ ~hcrashed
    /\ hreq' = [hreq EXCEPT !.handler = "LogEntry::doGet", !.params = params]
    /\ IF Len(params) # 1
       THEN /\ hres' = ResEnd(SetResult(hres, "internal_server_error"))
            /\ hpc' = [state |-> "returned", item |-> 0]
            /\ UNCHANGED <<hlocal, hscopes, hcalls, hcrashed, hreads, hfailed, hhistory>>
       ELSE \E id \in {Len(hscopes) + 1} :
            \E issued \in {{Call(n, "", id) : n \in LogEntryCallNames}} :
                Proceed(Outcome(
                    [hres EXCEPT !.jsonValue =
                         Put(LogEntryNodeJson, "@odata.id",
                             <<"/redfish/v1/Systems/1/LogServices/SEL/Entries/">>
                             \o params[1])],
                    [MakeAsyncResp(hscopes, LocalHandle) EXCEPT
                        ![id] = @ \cup {CallHandle(c) : c \in issued}],
                    hcalls \cup issued, id, "return"))
    /\ UNCHANGED <<pipelineVars, mergedLiterals, proj, upload, calc>>

translateSeverityDbusToRedfish(s) ==
    IF s = "xyz.openbmc_project.Logging.Entry.Level.Alert" THEN "Critical"
    ELSE IF s = "xyz.openbmc_project.Logging.Entry.Level.Critical" THEN "Critical"
    ELSE IF s = "xyz.openbmc_project.Logging.Entry.Level.Debug" THEN "OK"
    ELSE IF s = "xyz.openbmc_project.Logging.Entry.Level.Emergency" THEN "Critical"
    ELSE IF s = "xyz.openbmc_project.Logging.Entry.Level.Error" THEN "Critical"
    ELSE IF s = "xyz.openbmc_project.Logging.Entry.Level.Information" THEN "OK"
    ELSE IF s = "xyz.openbmc_project.Logging.Entry.Level.Notice" THEN "OK"
    ELSE IF s = "xyz.openbmc_project.Logging.Entry.Level.Warning" THEN "Warning"
    ELSE ""

\* getDateTime(Milliseconds{t}, "%FT%T%z") with the ':' put into the zone
Created(millisTimeStamp) == <<"date and time of", millisTimeStamp>>

\* std::stoi(text, nullptr, 10) of two characters given as hexadecimal
\* digits: the decimal digits it starts with, or an exception when none
Stoi(text) ==
    IF text[1] > 9 THEN [throws |-> TRUE, v |-> 0]
    ELSE IF text[2] > 9 THEN [throws |-> FALSE, v |-> text[1]]
    ELSE [throws |-> FALSE, v |-> text[1] * 10 + text[2]]

\* Response::clear
ResClear(rs) == [rs EXCEPT !.code = "ok", !.jsonValue = EmptyObject]

\* the branch of the property loop for AdditionalData
AdditionalDataBranch(st, addData) ==
    IF Len(addData) < 2 THEN {[st EXCEPT !.crash = TRUE]}    \* addData->at(1) throws
    ELSE LET selData == addData[2]
         IN  {IF id.crash \/ type.crash \/ Stoi(number.ret).throws
              THEN [st EXCEPT !.crash = TRUE]
              ELSE [st EXCEPT !.json =
                        Put(Put(Put(@, "MessageId", id.ret), "SensorType", type.ret),
                            "SensorNumber", JsonInteger(Stoi(number.ret).v))] :
                 id \in getSELSpecificInfo(selData, 2),
                 type \in getSELSpecificInfo(selData, 0),
                 number \in getSELSpecificInfo(selData, 1)}

\* the keys of a flat_map of properties come in this order
LogPropertyOrder ==
    <<"AdditionalData", "Id", "Message", "Resolved", "Severity", "Timestamp">>

\* for (auto &propertyMap : interfaceMap.second), from the i-th key on
RECURSIVE PropertyLoop(_, _, _, _)
PropertyLoop(st, entryId, props, i) ==
    IF i > Len(LogPropertyOrder) \/ st.crash THEN {st}
    ELSE IF LogPropertyOrder[i] \notin DOMAIN props
    THEN PropertyLoop(st, entryId, props, i + 1)
    ELSE LET name == LogPropertyOrder[i]
             value == props[name]
         IN  IF name = "Id"
             THEN IF value.t # "uint32" \/ entryId # to_string(value.v)
                  THEN {st}                                    \* break
                  ELSE PropertyLoop(
                           [st EXCEPT !.idFound = TRUE,
                                      !.json = Put(Put(@, "Id", entryId), "Name",
                                                   <<"Log Entry ">> \o entryId)],
                           entryId, props, i + 1)
             ELSE IF name = "Timestamp" /\ value.t = "uint64"
             THEN PropertyLoop([st EXCEPT !.json = Put(@, "Created", Created(value.v))],
                               entryId, props, i + 1)
             ELSE IF name = "Severity" /\ value.t = "string"
             THEN PropertyLoop(
                      [st EXCEPT !.json =
                           Put(@, "Severity", <<translateSeverityDbusToRedfish(value.s)>>)],
                      entryId, props, i + 1)
             ELSE IF name = "AdditionalData" /\ value.t = "vector"
             THEN UNION {PropertyLoop(next, entryId, props, i + 1) :
                            next \in AdditionalDataBranch(st, value.v)}
             ELSE IF name = "Message" /\ value.t = "string"
             THEN PropertyLoop([st EXCEPT !.json = Put(@, "Message", <<value.s>>)],
                               entryId, props, i + 1)
             ELSE PropertyLoop(st, entryId, props, i + 1)

\* for (auto &objectPath : resp), from the k-th object on
RECURSIVE ObjectLoop(_, _, _, _)
ObjectLoop(st, entryId, resp, k) ==
    IF k > Len(resp) \/ st.crash THEN {st}
    ELSE IF resp[k].interface # LoggingEntry \/ st.idFound
    THEN ObjectLoop(st, entryId, resp, k + 1)                  \* continue, break
    ELSE UNION {ObjectLoop(next, entryId, resp, k + 1) :
                   next \in PropertyLoop(st, entryId, resp[k].props, 1)}

\* the handler of the GetManagedObjects call of LogEntry::doGet
LogEntryCallback(rs, entryId, ec, resp) ==
    IF ec # 0 THEN {CallbackIssues(SetResult(rs, "internal_server_error"), {})}
    ELSE {IF st.crash THEN CallbackResult(rs, TRUE)
          ELSE IF ~st.idFound
          THEN CallbackIssues(SetResult(ResClear(rs), "not_found"), {})
          ELSE CallbackIssues([rs EXCEPT !.jsonValue = st.json], {}) :
             st \in ObjectLoop([json |-> rs.jsonValue, idFound |-> FALSE, crash |-> FALSE],
                               entryId, resp, 1)}

SystemsDeadReads(c, ec) ==
    IF c.name = "SetBoot" /\ ec = 0 THEN {"key", "*reqBootOverride"} ELSE {}

DeadReads(c, ec) ==
    IF c.name \in NetPatchCallNames THEN NetPatchDeadReads(c, ec)
    ELSE SystemsDeadReads(c, ec)

RunCallback(rs, c, ec, payload) ==
    IF c.name \in NetPatchCallNames THEN NetPatchCallback(rs, c, ec)
    ELSE IF c.name \in SystemsGetCallNames THEN SystemsGetCallback(rs, c, ec, payload)
    ELSE IF c.name \in ManagerGetCallNames THEN ManagerGetCallback(rs, c, ec, payload)
    ELSE IF c.name \in NetGetCallNames THEN NetGetCallback(rs, c, ec, payload)
    ELSE IF c.name \in SystemResetCallNames THEN SystemResetCallback(rs, c, ec)
    ELSE IF c.name \in ManagerResetCallNames THEN ManagerResetCallback(rs, c, ec, payload)
    ELSE IF c.name \in LogEntryCallNames
    THEN LogEntryCallback(rs, hreq.params[1], ec, payload)
    ELSE Callback(rs, c, ec)

\* the bus completes a call: its handler runs, the handlers of the calls it
\* issues get copies of its shared_ptr, and its closure is destroyed
HandlerReply(c, ec, payload) ==
    /\ hpc.state = "returned"
    /\ c \in hcalls
    /\ ~hcrashed
    /\ hreads' = hreads \cup {<<c.name, v>> : v \in DeadReads(c, ec)}
    /\ hfailed' = (hfailed \/ ec # 0)
    /\ hhistory' =
           IF ec # 0 THEN hhistory
           ELSE IF c.name = "Severity" /\ payload[1] = "string"
           THEN [hhistory EXCEPT
                    !.gravest = Graver(@, HealthOfLevel(EntryLevel(payload[2])))]
           ELSE IF c.name = "getLedGroupIdentify" THEN [hhistory EXCEPT !.groups = payload]
           ELSE IF c.name = "GetAll State.BMC" THEN [hhistory EXCEPT !.properties = payload]
           ELSE IF c.name \in LogEntryCallNames
           THEN [hhistory EXCEPT !.entries = payload, !.replied = TRUE]
           ELSE hhistory
    /\ \E o \in RunCallback(hres, c, ec, payload) :
           IF o.crash
           THEN /\ hcrashed' = TRUE
                /\ UNCHANGED <<hres, hscopes, hcalls>>
           ELSE /\ \E copied \in {IF o.issued = {} THEN hscopes
                                  ELSE [hscopes EXCEPT ![c.scope] =
                                            @ \cup {CallHandle(n) : n \in o.issued}]} :
                   \E out \in {DestroyHandle(o.res, copied, c.scope, CallHandle(c))} :
                       hres' = out.res /\ hscopes' = out.scopes
                /\ hcalls' = (hcalls \ {c}) \cup o.issued
                /\ UNCHANGED hcrashed
    /\ UNCHANGED <<hreq, hpc, hlocal>>
    /\ UNCHANGED <<pipelineVars, mergedLiterals, proj, upload, calc>>

\* the bus completes one of the calls in flight
Reply ==
    \E c \in hcalls, ec \in {0} \cup ErrorCodes :
        \E payload \in (IF ec = 0 THEN Payloads(c) ELSE {NoPayload}) :
            HandlerReply(c, ec, payload)

HandlerNext ==
    \/ \E role \in RoleNames : RolesDoGet(role)
    \/ \E params \in ParamLists, body \in PatchBodies : SystemsDoPatch(params, body)
    \/ \E body \in NetPatchBodies, fileOk \in BOOLEAN : NetworkProtocolDoPatch(body, fileOk)
    \/ SystemsPatchItem
    \/ SystemsPatchEnd
    \/ Reply

HandlerSpec == Init /\ [][HandlerNext]_vars

\* the GET handlers of Systems, Manager and NetworkProtocol
GetNext ==
    \/ \E params \in [1..1 -> SystemsNames] \cup {<<>>} : SystemsDoGet(params)
    \/ ManagerDoGet
    \/ NetworkProtocolDoGet
    \/ Reply

GetSpec == Init /\ [][GetNext]_vars

\* LogEntry GET
LogNext ==
    \/ \E params \in [1..1 -> EntryIds] \cup {<<>>} : LogEntryDoGet(params)
    \/ Reply

LogSpec == Init /\ [][LogNext]_vars

\* the POST handlers of the actions
PostNext ==
    \/ \E body \in ResetBodies : SystemActionsResetDoPost(body)
    \/ \E body \in ManagerResetBodies : ManagerActionsResetDoPost(body)
    \/ BIOSLogServiceActionsClearDoPost
    \/ Reply

PostSpec == Init /\ [][PostNext]_vars

\* every call that was issued completes: the bus calls each handler
PostFairSpec == PostSpec /\ WF_vars(Reply)

----------------------------------------------------------------------------
(* UploadService (upload_service.hpp).  doPost runs from entry to return on *)
(* the event loop; the handler it gives to the timer runs later, when the   *)
(* loop takes it from its queue.  Whether writing the file took longer than *)
(* the five seconds of the timer is the input "slow".                       *)

UploadNodeJson ==
    ("@odata.type" :> <<"#UploadService.v1_0_0.UploadService">>)
    @@ ("@odata.id" :> <<"/redfish/v1/AmpereComputing/UploadService">>)
    @@ ("Id" :> <<"UploadService">>)
    @@ ("ServiceEnabled" :> TRUE)

\* a message of the registry
MessageObject(id) == Put(EmptyObject, "MessageId", <<id>>)

\* the request that arrives next
UploadRequest == upload.arrived + 1

\* UploadService::doGet
UploadDoGet ==
    /\ upload.arrived < MaxUploads
    /\ upload' = [upload EXCEPT
                     !.arrived = UploadRequest,
                     !.res[UploadRequest] = ResEnd([@ EXCEPT !.jsonValue = UploadNodeJson])]
    /\ UNCHANGED <<pipelineVars, mergedLiterals, proj, handlerVars, calc>>

\* timeout.cancel(ec) after the file was written: a wait that has not
\* expired completes with operation_aborted; the handler of a timer that has
\* expired is already queued and completes without error
TimerCancel(k, slow) ==
    [req |-> k, ec |-> IF slow THEN "success" ELSE "operation_aborted"]

\* UploadService::doPost from entry to return
UploadDoPost(slow) ==
    /\ upload.arrived < MaxUploads
    /\ IF ~upload.fileUpload
       THEN upload' = [upload EXCEPT
                          !.arrived = UploadRequest,
                          !.res[UploadRequest] =
                              ResEnd([SetResult(@, "service_unavailable") EXCEPT
                                         !.jsonValue =
                                             MessageObject("ServiceTemporarilyUnavailable")])]
       ELSE upload' = [upload EXCEPT
                          !.arrived = UploadRequest,
                          \* fileUpload = false ... fileUpload = true
                          !.fileUpload = TRUE,
                          !.waits = Append(@, TimerCancel(UploadRequest, slow)),
                          !.res[UploadRequest] =
                              ResEnd([@ EXCEPT !.jsonValue = MessageObject("Success")])]
    /\ UNCHANGED <<pipelineVars, mergedLiterals, proj, handlerVars, calc>>

\* the handler given to timeout.async_wait, holding res by reference
TimeoutHandler ==
    /\ upload.waits # <<>>
    /\ \E w \in {Head(upload.waits)} :
          upload' = [upload EXCEPT
                        !.waits = Tail(@),
                        !.fileUpload = TRUE,
                        !.late = IF w.ec = "success" /\ upload.res[w.req].ended > 0
                                 THEN @ \cup {w.req} ELSE @,
                        !.res[w.req] =
                            IF w.ec = "success"
                            THEN ResEnd([SetResult(@, "internal_server_error") EXCEPT
                                            !.jsonValue = MessageObject("InternalError")])
                            ELSE @]
    /\ UNCHANGED <<pipelineVars, mergedLiterals, proj, handlerVars, calc>>

UploadNext ==
    \/ UploadDoGet
    \/ \E slow \in BOOLEAN : UploadDoPost(slow)
    \/ TimeoutHandler

UploadSpec == Init /\ [][UploadNext]_vars

----------------------------------------------------------------------------
(* The functions called on their own                                        *)

\* the values of PatchVersion that are tried
Halves == {0, 1, 255, 256, 258, 32767, 32768, 65535}
PatchVersions == Halves \X Halves

CalcArgs(fn) ==
    IF fn = "fwVersion"
    THEN {[data |-> 0, field |-> 0, version |-> v, s |-> s] :
            v \in {<<0, 0>>, <<2, 10>>}, s \in PatchVersions}
    ELSE IF fn = "getEventDirType"
    THEN {[data |-> b, field |-> 0, version |-> <<0, 0>>, s |-> <<0, 0>>] : b \in Bytes}
    ELSE {[data |-> b, field |-> f, version |-> <<0, 0>>, s |-> <<0, 0>>] :
            b \in Bytes, f \in 0..2}

CalcFunctions == {"getEventDirType", "getSELSpecificInfo", "fwVersion"}

CalcInit ==
    /\ PipelineIdle
    /\ HandlersIdle
    /\ mergedLiterals \in BOOLEAN
    /\ proj = NoProjection
    /\ upload = UploadIdle
    /\ \E fn \in CalcFunctions : \E a \in CalcArgs(fn) :
           calc = [fn |-> fn, arg |-> a, stage |-> "called", result |-> NoResult]

\* one call, from entry to return
Calculate ==
    /\ calc.stage = "called"
    /\ \E r \in (IF calc.fn = "getEventDirType"
                 THEN {Returned(getEventDirType(calc.arg.data)) @@ [overflow |-> FALSE]}
                 ELSE IF calc.fn = "getSELSpecificInfo"
                 THEN {o @@ [overflow |-> FALSE] :
                         o \in getSELSpecificInfo(
                                   SelData(calc.arg.data, calc.arg.data, calc.arg.data),
                                   calc.arg.field)}
                 ELSE FirmwareVersion(calc.arg.version[1], calc.arg.version[2],
                                      calc.arg.s)) :
           calc' = [calc EXCEPT !.stage = "returned", !.result = r]
    /\ UNCHANGED <<pipelineVars, mergedLiterals, proj, handlerVars, upload>>

CalcNext == Calculate

CalcSpec == CalcInit /\ [][CalcNext]_vars

----------------------------------------------------------------------------
(* Properties                                                               *)

Scoped(r) == scope[r].state # "none"
Finalized(r) == res[r].ended > 0
ErrorDeliveries(r) == {i \in 1..Len(delivered[r]) : delivered[r][i].ec # 0}
DataDeliveries(r) ==
    {i \in 1..Len(delivered[r]) :
        delivered[r][i].call = "GetManagedObjects" /\ delivered[r][i].ec = 0}

\* an object the loop of getManagedObjectsCb gives an entry
Accepted(types, object) ==
    /\ Len(Split(object.path)) >= MinPathSegments
    /\ IsMatchSensorType(types, Split(object.path)[5])
    /\ FieldName(Split(object.path)[5]) # ""

AcceptedCount(types, resp) ==
    Cardinality({i \in 1..Len(resp) : Accepted(types, resp[i])})

RECURSIVE AcceptedTotal(_, _)
AcceptedTotal(types, d) ==
    IF d = <<>> THEN 0
    ELSE (IF Head(d).ec = 0 THEN AcceptedCount(types, Head(d).resp) ELSE 0)
         + AcceptedTotal(types, Tail(d))

ArrayLen(json, key) == IF key \in DOMAIN json THEN Len(json[key]) ELSE 0

EntryCount(json) ==
    ArrayLen(json, "Temperatures") + ArrayLen(json, "Fans")
    + ArrayLen(json, "Voltages") + ArrayLen(json, "PowerSupplies")

CategoryPart(json) == [k \in (DOMAIN json) \cap CategoryKeys |-> json[k]]

\* C1: for a request handled through a SensorAsyncResp, whatever the number of
\* shared_ptr copies made and the order of their destruction, end() has been
\* called exactly once when no copy is left and not at all while one is left.
C1_EndExactlyOnceAtLastRelease ==
    \A r \in Requests :
        Scoped(r) => res[r].ended = (IF owners[r] = {} THEN 1 ELSE 0)

\* four copies were made (two in the GetSubTree handler, one per connection)
\* and all were released
C1_Witness ==
    \E r \in Requests :
        /\ Len(delivered[r]) = 3
        /\ owners[r] = {}
        /\ res[r].ended = 1
        /\ res[r].code = "ok"

\* C2: the response is not finalized while a backend query of the request
\* (the GetSubTree call or a GetManagedObjects call) is outstanding.
C2_NotFinalizedWhileOutstanding ==
    \A r \in Requests : pending[r] # <<>> => res[r].ended = 0

\* one GetManagedObjects call has failed, the other is outstanding
C2_Witness ==
    \E r \in Requests :
        /\ Len(delivered[r]) = 2
        /\ delivered[r][2].ec # 0
        /\ Len(pending[r]) = 1
        /\ res[r].ended = 0

\* C3: when every backend query that was issued completes, a request that
\* built its SensorAsyncResp is eventually finalized.
C3_EventuallyFinalized ==
    \A r \in Requests : Scoped(r) ~> Finalized(r)

\* the last callback left by its error return, and the request is finalized
C3_Witness ==
    \E r \in Requests :
        /\ Len(delivered[r]) = 3
        /\ delivered[r][3].ec # 0
        /\ delivered[r][2].ec = 0
        /\ Finalized(r)

\* C4: when a callback has set the error status, the finalized body is the
\* empty document, whatever was written before or after the error.
C4_ErrorEmptiesBody ==
    \A r \in Requests :
        (Scoped(r) /\ Finalized(r) /\ ErrorDeliveries(r) # {}) =>
            /\ res[r].code = "internal_server_error"
            /\ res[r].jsonValue = EmptyObject

\* a sibling wrote entries after the error was recorded
C4_Witness ==
    \E r \in Requests :
        /\ Finalized(r)
        /\ Len(delivered[r]) = 3
        /\ delivered[r][2].ec # 0
        /\ delivered[r][3].ec = 0
        /\ EntryCount(current[r].atReturn.jsonValue) > 0
        /\ res[r].jsonValue = EmptyObject

\* one GetManagedObjects call failed, the other returned two objects that
\* both get an entry
ScenarioC(r) ==
    /\ Len(delivered[r]) = 3
    /\ \E i, j \in {2, 3} :
        /\ i # j
        /\ delivered[r][i].ec # 0
        /\ delivered[r][j].ec = 0
        /\ Len(delivered[r][j].resp) = 2
        /\ \A k \in 1..2 :
            /\ Accepted(scope[r].types, delivered[r][j].resp[k])
            /\ ValueInterface \in DOMAIN delivered[r][j].resp[k].interfaces

\* C5: an error in one GetManagedObjects callback does not abort the others:
\* each outstanding call keeps its copy and the response stays open, a
\* callback that succeeds writes its entries even after an error, and with
\* one failed call and one call that returned two valid objects the
\* finalized response is an error with an empty body.
C5_SiblingsRunAfterError ==
    \A r \in Requests :
        Scoped(r) =>
            /\ \A i \in 1..Len(pending[r]) :
                pending[r][i].method = "GetManagedObjects" =>
                    /\ ManagedObjectsHandle(pending[r][i].connection) \in owners[r]
                    /\ res[r].ended = 0
            /\ (current[r].call = "GetManagedObjects" /\ current[r].ec = 0) =>
                EntryCount(current[r].atReturn.jsonValue)
                    = AcceptedTotal(scope[r].types, delivered[r])
            /\ (ScenarioC(r) /\ Finalized(r)) =>
                /\ res[r].code = "internal_server_error"
                /\ res[r].jsonValue = EmptyObject

\* the failure came first, the sibling then wrote its two entries
C5_Witness ==
    \E r \in Requests :
        /\ ScenarioC(r)
        /\ delivered[r][2].ec # 0
        /\ EntryCount(current[r].atReturn.jsonValue) = 2
        /\ Finalized(r)
        /\ res[r].jsonValue = EmptyObject

\* the error detail a response reports: the "error" member of its body, 0
\* when the body has none
ErrorDetail(rs) ==
    IF "error" \in DOMAIN rs.jsonValue THEN rs.jsonValue["error"] ELSE 0

DistinctErrors(r) ==
    \E i, j \in ErrorDeliveries(r) : delivered[r][i].ec # delivered[r][j].ec

FirstError(r) ==
    delivered[r][CHOOSE i \in ErrorDeliveries(r) : \A j \in ErrorDeliveries(r) : i <= j].ec

C7_ErrorIffBackendError ==
    \A r \in Requests :
        Scoped(r) =>
            (res[r].code = "internal_server_error" <=> ErrorDeliveries(r) # {})

ObjectsSeen(r) ==
    UNION {{delivered[r][i].resp[j] : j \in 1..Len(delivered[r][i].resp)} :
              i \in DataDeliveries(r)}

\* an object the callbacks pass over or project in part: its path is too
\* short, its segment is not requested or names no category, or it has no
\* value interface
Anomalous(types, o) ==
    \/ ~Accepted(types, o)
    \/ ValueInterface \notin DOMAIN o.interfaces

\* every object the replies held was anomalous, one of them for its path and
\* another for its interfaces, and the request ended well
C7_Witness ==
    \E r \in Requests :
        /\ Finalized(r)
        /\ res[r].code = "ok"
        /\ Cardinality(ObjectsSeen(r)) = MaxObjects
        /\ \A o \in ObjectsSeen(r) : Anomalous(scope[r].types, o)
        /\ \E o \in ObjectsSeen(r) : ~Accepted(scope[r].types, o)
        /\ \E o \in ObjectsSeen(r) :
            /\ Accepted(scope[r].types, o)
            /\ ValueInterface \notin DOMAIN o.interfaces

\* the connections that expose an object whose path starts with a requested type
ExpectedConnections(types, subtree) ==
    {c \in ConnectionNames :
        \E i \in 1..Len(subtree) :
            /\ \E t \in 1..Len(types) : StartsWith(subtree[i].path, types[t])
            /\ \E k \in 1..Len(subtree[i].services) : subtree[i].services[k][1] = c}

CallsTo(r, c) ==
    Cardinality({i \in 1..Len(pending[r]) : pending[r][i] = GetManagedObjectsCall(c)})

\* C8: after a successful GetSubTree reply exactly one GetManagedObjects call
\* is outstanding for each connection that exposes an object of a requested
\* type, and none for any other connection.
C8_OneCallPerConnection ==
    \A r \in Requests :
        (current[r].call = "GetSubTree" /\ current[r].ec = 0) =>
            /\ Len(pending[r])
                 = Cardinality(ExpectedConnections(scope[r].types, current[r].subtree))
            /\ \A c \in ConnectionNames :
                CallsTo(r, c) =
                    (IF c \in ExpectedConnections(scope[r].types, current[r].subtree)
                     THEN 1 ELSE 0)

\* svcA exposes two matching objects of two types and is queried once
C8_Witness ==
    \E r \in Requests :
        /\ current[r].call = "GetSubTree"
        /\ current[r].ec = 0
        /\ Len(current[r].subtree) = 2
        /\ \A i \in 1..2 :
            /\ MatchesRequestedType(scope[r].types, current[r].subtree[i].path)
            /\ current[r].subtree[i].services[1][1] = "svcA"
        /\ current[r].subtree[1].path # current[r].subtree[2].path
        /\ CallsTo(r, "svcA") = 1

\* C9: a successful GetSubTree reply without a matching connection issues no
\* GetManagedObjects call and finalizes the response, with status ok and no
\* category array, when its handler returns.
C9_NoConnectionsFinalizes ==
    \A r \in Requests :
        (/\ current[r].call = "GetSubTree"
         /\ current[r].ec = 0
         /\ ExpectedConnections(scope[r].types, current[r].subtree) = {}) =>
            /\ pending[r] = <<>>
            /\ res[r].ended = 1
            /\ res[r].code = "ok"
            /\ (DOMAIN res[r].jsonValue) \cap CategoryKeys = {}
            /\ "@odata.id" \in DOMAIN res[r].jsonValue

\* the subtree held objects, none of a requested type
C9_Witness ==
    \E r \in Requests :
        /\ current[r].call = "GetSubTree"
        /\ current[r].ec = 0
        /\ Len(current[r].subtree) > 0
        /\ ExpectedConnections(scope[r].types, current[r].subtree) = {}
        /\ res[r].ended = 1

DropShort(resp) ==
    SelectSeq(resp, LAMBDA o : Len(Split(o.path)) >= MinPathSegments)

\* the document the replies delivered so far give when the paths that are
\* too short are taken out of them
RECURSIVE WithoutShort(_, _, _)
WithoutShort(sc, d, json) ==
    IF d = <<>> THEN json
    ELSE WithoutShort(sc, Tail(d),
                      IF Head(d).call = "GetManagedObjects" /\ Head(d).ec = 0
                      THEN ProcessObjects(sc, json, DropShort(Head(d).resp))
                      ELSE json)

\* C10: an object path of fewer than 6 components adds no entry and sets no
\* error, and the other objects of the reply are processed: the category
\* arrays are those of the replies without these objects.
C10_ShortPathSkipped ==
    \A r \in Requests :
        (Scoped(r) /\ current[r].call = "GetManagedObjects") =>
            /\ CategoryPart(current[r].atReturn.jsonValue)
                 = CategoryPart(WithoutShort(scope[r], delivered[r], EmptyObject))
            /\ ErrorDeliveries(r) = {} => current[r].atReturn.code = "ok"

\* a reply held a short path followed by a sensor that got its entry
C10_Witness ==
    \E r \in Requests :
        /\ current[r].call = "GetManagedObjects"
        /\ current[r].ec = 0
        /\ Len(current[r].resp) = 2
        /\ Len(Split(current[r].resp[1].path)) < MinPathSegments
        /\ Accepted(scope[r].types, current[r].resp[2])
        /\ EntryCount(current[r].atReturn.jsonValue) = 1
        /\ res[r].code = "ok"

\* the categories the request names: the last segment of each requested type
RequestedCategories(types) ==
    {Split(types[i])[Len(Split(types[i]))] : i \in 1..Len(types)}

DropUnrequested(types, resp) ==
    SelectSeq(resp, LAMBDA o : \/ Len(Split(o.path)) < MinPathSegments
                               \/ Split(o.path)[5] \in RequestedCategories(types))

\* the document the replies delivered so far give when the objects of a
\* category the request does not name are taken out of them
RECURSIVE WithoutUnrequested(_, _, _)
WithoutUnrequested(sc, d, json) ==
    IF d = <<>> THEN json
    ELSE WithoutUnrequested(sc, Tail(d),
                            IF Head(d).call = "GetManagedObjects" /\ Head(d).ec = 0
                            THEN ProcessObjects(sc, json, DropUnrequested(sc.types, Head(d).resp))
                            ELSE json)

\* C11: an object whose category segment is not one of the categories the
\* request names gets no entry: the category arrays are those of the replies
\* without these objects (Thermal: fan_tach and temperature only; Power:
\* voltage and power only).
C11_OnlyRequestedCategories ==
    \A r \in Requests :
        (Scoped(r) /\ current[r].call = "GetManagedObjects") =>
            CategoryPart(current[r].atReturn.jsonValue)
              = CategoryPart(WithoutUnrequested(scope[r], delivered[r], EmptyObject))

DropValueless(resp) ==
    SelectSeq(resp, LAMBDA o : ValueInterface \in DOMAIN o.interfaces)

\* the document the replies delivered so far give when the objects without
\* the value interface are taken out of them
RECURSIVE WithoutValueless(_, _, _)
WithoutValueless(sc, d, json) ==
    IF d = <<>> THEN json
    ELSE WithoutValueless(sc, Tail(d),
                          IF Head(d).call = "GetManagedObjects" /\ Head(d).ec = 0
                          THEN ProcessObjects(sc, json, DropValueless(Head(d).resp))
                          ELSE json)

\* C12: only an object whose interfaces include the value interface gets an
\* entry: the category arrays are those of the replies without the objects
\* that lack it.
C12_EntryOnlyWithValueInterface ==
    \A r \in Requests :
        (Scoped(r) /\ current[r].call = "GetManagedObjects") =>
            CategoryPart(current[r].atReturn.jsonValue)
              = CategoryPart(WithoutValueless(scope[r], delivered[r], EmptyObject))

\* the category arrays one reply gives on its own
Contribution(sc, resp) == CategoryPart(ProcessObjects(sc, EmptyObject, resp))

\* no two of the data replies delivered so far write the same category array
DisjointCategories(r) ==
    \A i, j \in DataDeliveries(r) :
        i # j => (DOMAIN Contribution(scope[r], delivered[r][i].resp))
                   \cap (DOMAIN Contribution(scope[r], delivered[r][j].resp)) = {}

\* the sensor name an entry carries after the "#/" of its @odata.id
EntryName(entry) ==
    LET id == entry["@odata.id"]
        i == CHOOSE n \in 1..Len(id) : id[n] = "#/"
    IN  SubSeq(id, i + 1, Len(id))

EntryNames(array) == [i \in 1..Len(array) |-> EntryName(array[i])]

\* the names of the objects of a reply that get an entry in array k, in the
\* order of the reply
NamesReturned(sc, resp, k) ==
    LET a == SelectSeq(resp, LAMBDA o : /\ Accepted(sc.types, o)
                                        /\ FieldName(Split(o.path)[5]) = k)
    IN  [i \in 1..Len(a) |-> Split(a[i].path)[6]]

\* C13: when the Stage-2 replies of a request contribute to disjoint
\* categories, the finalized document holds, for either completion order,
\* exactly the arrays of the replies, each array with the entries of its own
\* connection in the order the connection returned them.
C13_DisjointCategoriesMerge ==
    \A r \in Requests :
        (Scoped(r) /\ Finalized(r) /\ ErrorDeliveries(r) = {} /\ DisjointCategories(r)) =>
            /\ \A i \in DataDeliveries(r) :
                 \A k \in DOMAIN Contribution(scope[r], delivered[r][i].resp) :
                     /\ k \in DOMAIN res[r].jsonValue
                     /\ res[r].jsonValue[k] = Contribution(scope[r], delivered[r][i].resp)[k]
                     /\ EntryNames(res[r].jsonValue[k])
                          = NamesReturned(scope[r], delivered[r][i].resp, k)
            /\ DOMAIN CategoryPart(res[r].jsonValue)
                 = UNION {DOMAIN Contribution(scope[r], delivered[r][i].resp) :
                            i \in DataDeliveries(r)}

\* svcB answered before svcA; one reply gave only Fans, the other only
\* Temperatures, and the finalized document holds both arrays
C13_Witness ==
    \E r \in Requests :
        /\ Finalized(r)
        /\ res[r].code = "ok"
        /\ Len(delivered[r]) = 3
        /\ delivered[r][2].connection = "svcB"
        /\ delivered[r][3].connection = "svcA"
        /\ {DOMAIN Contribution(scope[r], delivered[r][i].resp) : i \in {2, 3}}
             = {{"Fans"}, {"Temperatures"}}
        /\ DOMAIN CategoryPart(res[r].jsonValue) = {"Fans", "Temperatures"}

----------------------------------------------------------------------------
(* Properties of objectInterfacesToJson (ProjectorSpec)                     *)

\* a number as <<m, e>>, standing for m * 10^e
JsonNum(j) == IF j.num = "integer" THEN <<j.v, 0>> ELSE <<j.m, j.e>>
RawNum(variant) == IF variant.t = "int64" THEN <<variant.v, 0>> ELSE <<variant.m, variant.e>>
TimesPow10(n, s) == <<n[1], n[2] + s>>
NumEq(a, b) ==
    LET lo == IF a[2] < b[2] THEN a[2] ELSE b[2]
    IN  a[1] * Pow10(a[2] - lo) = b[1] * Pow10(b[2] - lo)

\* the call has returned for an object with the value interface and a sensor
\* type the function maps
Projected ==
    /\ proj.stage = "returned"
    /\ ValueInterface \in DOMAIN proj.interfacesDict
    /\ Unit(proj.sensorType) # ""

\* the field-map entries whose source property the object carries
Carried ==
    {i \in 1..Len(Properties(proj.sensorType)) :
        LET p == Properties(proj.sensorType)[i]
        IN  /\ p[1] \in DOMAIN proj.interfacesDict
            /\ p[2] \in DOMAIN proj.interfacesDict[p[1]]}

Source(i) ==
    proj.interfacesDict[Properties(proj.sensorType)[i][1]][Properties(proj.sensorType)[i][2]]
SourceName(i) == Properties(proj.sensorType)[i][2]
Destination(i) == Properties(proj.sensorType)[i][3]

HasIntegerScale ==
    /\ "Scale" \in DOMAIN proj.interfacesDict[ValueInterface]
    /\ proj.interfacesDict[ValueInterface]["Scale"].t = "int64"

IntegerScale == proj.interfacesDict[ValueInterface]["Scale"].v

\* C14: with an integer Value v and an integer Scale s, every scaled field of
\* a category that is not forced to integer holds exactly v * 10^s, the
\* fraction included.
C14_IntegerValueScaledExactly ==
    (Projected /\ ~ForceToInt(proj.sensorType) /\ HasIntegerScale) =>
        \A i \in Carried :
            (SourceName(i) # "SensorID" /\ Source(i).t = "int64") =>
                /\ Destination(i) \in DOMAIN proj.sensor_json
                /\ NumEq(JsonNum(proj.sensor_json[Destination(i)]),
                         TimesPow10(RawNum(Source(i)), IntegerScale))

\* C15: in the fan categories every projected numeric field is an integer,
\* whatever the Scale and the type of the raw value; in every other category
\* a negative Scale gives a floating-point value.
C15_FanIntegerOthersFloat ==
    Projected =>
        \A i \in Carried :
            /\ Destination(i) \in DOMAIN proj.sensor_json
            /\ ForceToInt(proj.sensorType) =>
                   proj.sensor_json[Destination(i)].num = "integer"
            /\ (/\ ~ForceToInt(proj.sensorType)
                /\ HasIntegerScale /\ IntegerScale < 0
                /\ SourceName(i) # "SensorID") =>
                   proj.sensor_json[Destination(i)].num = "float"

NoScale == "Scale" \notin DOMAIN proj.interfacesDict[ValueInterface]

IsIntegerPartOf(n, num) ==
    IF num[2] >= 0 THEN n = num[1] * Pow10(num[2])
    ELSE IF num[1] >= 0
         THEN n * Pow10(-num[2]) <= num[1] /\ num[1] < (n + 1) * Pow10(-num[2])
         ELSE (n - 1) * Pow10(-num[2]) < num[1] /\ num[1] <= n * Pow10(-num[2])

C17_SensorIdVerbatim ==
    Projected =>
        \A i \in Carried :
            SourceName(i) = "SensorID" =>
                /\ Destination(i) = "SensorNumber"
                /\ "SensorNumber" \in DOMAIN proj.sensor_json
                /\ NumEq(JsonNum(proj.sensor_json["SensorNumber"]), RawNum(Source(i)))

\* C18: the destination key of a field-map entry is in the fragment exactly
\* when the object carries the source property under the source interface;
\* a missing property leaves out its own key only.
C18_KeyPresentIffPropertyCarried ==
    Projected =>
        /\ \A i \in 1..Len(Properties(proj.sensorType)) :
               Destination(i) \in DOMAIN proj.sensor_json <=> i \in Carried
        /\ "@odata.id" \in DOMAIN proj.sensor_json

\* an entry of the field map is missing and a later one was still copied
C18_Witness ==
    /\ Projected
    /\ \E i, j \in 1..Len(Properties(proj.sensorType)) :
           /\ i < j
           /\ i \notin Carried
           /\ j \in Carried
           /\ Destination(i) \notin DOMAIN proj.sensor_json
           /\ Destination(j) \in DOMAIN proj.sensor_json

----------------------------------------------------------------------------
(* Properties of the handlers with AsyncResp (HandlerSpec)                  *)

LiveScopes == {n \in 1..Len(hscopes) : hscopes[n] # {}}

\* C19: a handler invocation constructs exactly one scope over its response:
\* once a Systems PATCH has begun, one AsyncResp has been made for the
\* response, and at no time are two of them alive.
C19_OneScopePerResponse ==
    hreq.handler = "Systems::doPatch" =>
        /\ Len(hscopes) = 1
        /\ Cardinality(LiveScopes) <= 1

\* C20: a Roles GET, which issues no asynchronous call, has finalized its
\* response exactly once when the handler has returned, with the role's
\* document for a known role and status not_found for an unknown one.
C20_RolesGetFinalizesOnce ==
    hreq.handler = "Roles::doGet" =>
        /\ hres.ended = 1
        /\ LiveScopes = {}
        /\ hcalls = {}
        /\ hres.code = (IF hreq.params[1] \in KnownRoles THEN "ok" ELSE "not_found")

\* the GET of a role that does not exist
C20_Witness ==
    /\ hreq.handler = "Roles::doGet"
    /\ hreq.params[1] = <<"Guest">>
    /\ hres.code = "not_found"
    /\ hres.ended = 1

\* C21: every call a Systems PATCH of IndicatorLed has issued holds a live,
\* non-null handle of the request's scope: while the call is in flight its
\* handle is one of the owners of a scope, and the response is not finalized.
C21_LedCallsHoldLiveHandle ==
    \A c \in hcalls :
        c.key = "IndicatorLed" =>
            /\ c.scope # 0
            /\ CallHandle(c) \in hscopes[c.scope]
            /\ hres.ended = 0

\* C22: every value the handler of a call reads when it runs is owned by the
\* handler: no handler of a call of NetworkProtocol PATCH or Systems PATCH
\* has read a variable of doPatch, or an element of the request body, after
\* doPatch returned and destroyed it.
C22_CallbacksOwnWhatTheyRead == hreads = {}

HandlerFinalized == hcalls = {} /\ hres.ended >= 1

\* C23: whenever a backend query of a request completed with an error code,
\* the finalized response is a server-side error; stated for Systems GET,
\* Manager GET and NetworkProtocol GET.
C23_BackendErrorIsServerError ==
    (/\ hreq.handler \in {"Systems::doGet", "Manager::doGet", "NetworkProtocol::doGet"}
     /\ hfailed
     /\ HandlerFinalized)
        => hres.code = "internal_server_error"

----------------------------------------------------------------------------
(* Properties of two interleaved sensor requests (PairSpec)                 *)

\* the scope a request has from its own parameters
SoloScope(r) ==
    [state |-> "alive", chassisId |-> req[r].params[1],
     types |-> NodeTypes(req[r].node), chassisSubNode |-> <<req[r].node>>]

\* the response after the handlers of the replies d, run on their own
RECURSIVE Replay(_, _, _)
Replay(sc, rs, d) ==
    IF d = <<>> THEN rs
    ELSE Replay(sc,
                IF Head(d).call = "GetSubTree"
                THEN (IF Head(d).ec # 0 THEN setErrorStatus(rs) ELSE rs)
                ELSE ManagedObjectsBody(sc, rs, Head(d).ec, Head(d).resp),
                Tail(d))

\* the response of request r had it run alone on a server just started,
\* with the replies it got
SoloResponse(r) ==
    IF Len(req[r].params) # 1 THEN ResEnd(setErrorStatus(NewResponse))
    ELSE LET start == [NewResponse EXCEPT !.jsonValue =
                           NodeDocument(NodeJsonInit(req[r].node), req[r].node,
                                        req[r].params[1])]
             run == Replay(SoloScope(r), start, delivered[r])
         IN  IF owners[r] = {} THEN Destructor(run) ELSE run

\* C24: when the handlers of two requests interleave, each request is
\* finalized exactly once, and its response (status, document, finalization)
\* is at every moment the one it would have had alone with the same replies:
\* nothing of the other request, or of an earlier one, is in it.
C24_InterleavedRequestsIndependent ==
    \A r \in Requests :
        req[r].node # "none" =>
            /\ res[r] = SoloResponse(r)
            /\ res[r].ended <= 1
            /\ (owners[r] = {} => res[r].ended = 1)

\* request 1 arrived first and is waiting for a reply after it got data, and
\* request 2, to the same node, has meanwhile run to its end with data
C24_Witness ==
    /\ req["req1"].node = "Thermal" /\ req["req2"].node = "Thermal"
    /\ "@odata.id" \in DOMAIN nodeJson["Thermal"]
    /\ "@odata.id" \in DOMAIN res["req1"].jsonValue
    /\ nodeJson["Thermal"]["@odata.id"] =
           <<"/redfish/v1/Chassis/">> \o PairChassis("req2") \o <<"/", "Thermal">>
    /\ Len(pending["req1"]) = 1 /\ DataDeliveries("req1") # {}
    /\ res["req1"].jsonValue["@odata.id"] =
           <<"/redfish/v1/Chassis/">> \o PairChassis("req1") \o <<"/", "Thermal">>
    /\ res["req2"].ended = 1 /\ res["req2"].code = "ok"
    /\ DataDeliveries("req2") # {}
    /\ "Temperatures" \in DOMAIN res["req2"].jsonValue

----------------------------------------------------------------------------
(* Further properties of the sensor pipeline (Spec)                         *)

\* C25: finalized is terminal: once the response of a sensor request has
\* been finalized, no step writes into its document, changes its status or
\* finalizes it again.
C25_FinalizedIsTerminal ==
    [][\A r \in Requests : Finalized(r) => res'[r] = res[r]]_vars

\* a request finalized after two Stage-2 handlers wrote into its document
C25_Witness ==
    /\ Finalized("req1")
    /\ res["req1"].code = "ok"
    /\ Cardinality(DataDeliveries("req1")) = 2
    /\ \A i \in DataDeliveries("req1") : delivered["req1"][i].resp # <<>>

\* C26 as claimed: between handlers, the number of live shared_ptr copies of
\* a request's SensorAsyncResp equals the number of its calls in flight.
C26_HandlesEqualQueriesInFlight ==
    \A r \in Requests : Cardinality(owners[r]) = Len(pending[r])

\* C26: between handlers, the live copies are those the handlers of the calls
\* in flight hold: the two captures of the GetSubTree handler while Stage 1 is
\* in flight (they go when it returns, after the Stage-2 calls were issued),
\* and afterwards one per GetManagedObjects call in flight, whatever the
\* number of objects a handler processed.
C26_HandlesHeldByQueriesInFlight ==
    \A r \in Requests :
        IF pending[r] = <<GetSubTreeCall>>
        THEN owners[r] = RespHandlerHandles
        ELSE /\ Cardinality(owners[r]) = Len(pending[r])
             /\ owners[r] = {ManagedObjectsHandle(pending[r][i].connection) :
                               i \in 1..Len(pending[r])}

\* one Stage-2 handler has processed two objects and released its copy; the
\* other call is in flight
C26_Witness ==
    /\ Len(pending["req1"]) = 1
    /\ pending["req1"][1].method = "GetManagedObjects"
    /\ Cardinality(owners["req1"]) = 1
    /\ \E i \in DataDeliveries("req1") : Len(delivered["req1"][i].resp) = 2

----------------------------------------------------------------------------
(* Properties of the action handlers (PostSpec, PostFairSpec)               *)

HandlerReturned == hpc.state = "returned"

\* C27: for every body of a SystemActionsReset POST that parses, the
\* response is finalized exactly once: never twice, and once when the
\* handler has returned and every call it issued has completed.
C27_SystemResetFinalizesOnce ==
    (hreq.handler = "SystemActionsReset::doPost" /\ hreq.body.valid) =>
        /\ hres.ended <= 1
        /\ (HandlerReturned /\ hcalls = {} => hres.ended = 1)

\* C28: every ManagerActionsReset POST and every BIOSLogServiceActionsClear
\* POST eventually has its response finalized.
C28_ActionsEventuallyFinalized ==
    (hreq.handler \in {"ManagerActionsReset::doPost", "BIOSLogServiceActionsClear::doPost"})
        ~> (hres.ended >= 1)

----------------------------------------------------------------------------
(* Properties of the category arrays (CategorySpec)                         *)

\* the array the claim names for a type segment; "" when it names none
ArrayOfCategory(sensorType) ==
    IF sensorType = Temperature THEN "Temperatures"
    ELSE IF sensorType \in {Fan, FanTach} THEN "Fans"
    ELSE IF sensorType = Voltage THEN "Voltages"
    ELSE IF sensorType \in {PowerType, Current} THEN "PowerSupplies"
    ELSE ""

\* the object passed the path-length check and the isMatchSensorType check
PassedFilters(types, object) ==
    /\ Len(Split(object.path)) >= MinPathSegments
    /\ IsMatchSensorType(types, Split(object.path)[5])

\* the objects of the data replies of r, as <<delivery, position>>
DeliveredObjects(r) ==
    {<<i, j>> \in (1..Len(delivered[r])) \X (1..(MaxObjects + 2)) :
        i \in DataDeliveries(r) /\ j <= Len(delivered[r][i].resp)}

ObjectAt(r, ij) == delivered[r][ij[1]].resp[ij[2]]

PassedObjects(r) ==
    {ij \in DeliveredObjects(r) : PassedFilters(scope[r].types, ObjectAt(r, ij))}

\* each array holds, name by name, as many entries as objects that passed
\* the filters have that name and a category the array stands for
ArraysHoldTheirCategories(r) ==
    \A k \in CategoryKeys :
        /\ ArrayLen(res[r].jsonValue, k)
             = Cardinality({ij \in PassedObjects(r) :
                              ArrayOfCategory(Split(ObjectAt(r, ij).path)[5]) = k})
        /\ \A ij \in PassedObjects(r) :
             \E name \in {Split(ObjectAt(r, ij).path)[6]} :
                 ArrayOfCategory(Split(ObjectAt(r, ij).path)[5]) = k =>
                     Cardinality({n \in 1..ArrayLen(res[r].jsonValue, k) :
                                     EntryName(res[r].jsonValue[k][n]) = name})
                       = Cardinality({xy \in PassedObjects(r) :
                                        /\ ArrayOfCategory(Split(ObjectAt(r, xy).path)[5]) = k
                                        /\ Split(ObjectAt(r, xy).path)[6] = name})

FinalizedWithoutError(r) ==
    Scoped(r) /\ Finalized(r) /\ ErrorDeliveries(r) = {} /\ res[r].code = "ok"

RECURSIVE Blocks(_, _, _)
Blocks(sc, d, k) ==
    IF d = <<>> THEN <<>>
    ELSE (IF d[1].call = "GetManagedObjects" /\ d[1].ec = 0
          THEN NamesReturned(sc, d[1].resp, k) ELSE <<>>)
         \o Blocks(sc, Tail(d), k)

\* both of the two data replies of r give array k an entry
BothContribute(r, k) ==
    /\ Cardinality(DataDeliveries(r)) = 2
    /\ \A i \in DataDeliveries(r) : NamesReturned(scope[r], delivered[r][i].resp, k) # <<>>

\* C30: when the Stage-2 replies of two connections both contribute objects
\* of one category, the finalized array holds the entries of the connection
\* whose callback completed first, in the order it returned them, followed by
\* the entries of the other connection in the order it returned them; no
\* entry is overwritten.
C30_SameCategoryBlocksInCompletionOrder ==
    \A r \in Requests : \A k \in CategoryKeys :
        (FinalizedWithoutError(r) /\ BothContribute(r, k)) =>
            /\ EntryNames(res[r].jsonValue[k]) = Blocks(scope[r], delivered[r], k)
            /\ \A n \in 1..Len(res[r].jsonValue[k]) :
                 \E i \in DataDeliveries(r) :
                     \E m \in 1..ArrayLen(Contribution(scope[r], delivered[r][i].resp), k) :
                         res[r].jsonValue[k][n] = Contribution(scope[r], delivered[r][i].resp)[k][m]

\* svcB completed first with two fans, svcA second with one: Fans holds the
\* two of svcB and then the one of svcA
C30_Witness ==
    \E r \in Requests :
        /\ FinalizedWithoutError(r)
        /\ BothContribute(r, "Fans")
        /\ delivered[r][2].connection = "svcB"
        /\ delivered[r][3].connection = "svcA"
        /\ Len(NamesReturned(scope[r], delivered[r][2].resp, "Fans")) = 2
        /\ Len(res[r].jsonValue["Fans"]) = 3
        /\ EntryNames(res[r].jsonValue["Fans"])[3]
             = NamesReturned(scope[r], delivered[r][3].resp, "Fans")[1]

----------------------------------------------------------------------------
(* Properties of Systems::doGet (GetSpec)                                   *)

\* the request is a Systems GET whose handler issued its queries
SystemsGetRunning == hreq.handler = "Systems::doGet" /\ Len(hreq.params) = 1

\* no query of getHostHealth is in flight
HealthQueriesDone ==
    \A c \in hcalls : c.name \notin {"getHostHealth", "Severity"}

\* C31: after all per-entry severity queries of a Systems GET have completed,
\* Status.Health is the gravest health of the severities the queries returned
\* (Critical for Critical, Alert, Emergency; Warning for Error, Warning; OK
\* otherwise), whatever the order in which the callbacks completed.
C31_HealthIsGravestSeverity ==
    (SystemsGetRunning /\ HealthQueriesDone /\ ~hcrashed) =>
        hres.jsonValue["Status"]["Health"] = hhistory.gravest

LedQueriesInFlight == {c \in hcalls : c.name = "getLedIdentify"}
LedGroupQueryInFlight == \E c \in hcalls : c.name = "getLedGroupIdentify"
AssertedGroups == {i \in 1..Len(hhistory.groups) : hhistory.groups[i] = "true"}

\* C32: in a Systems GET an identify-LED state query is in flight only after
\* the LED-group query has returned a group whose Asserted property is true;
\* when the groups returned are all not asserted, IndicatorLED is "Off" and
\* no second query is issued; the response is finalized only after the last
\* issued stage has completed.
C32_LedSecondStageOnlyWhenAsserted ==
    (SystemsGetRunning /\ ~hcrashed) =>
        /\ LedQueriesInFlight # {} => (~LedGroupQueryInFlight /\ AssertedGroups # {})
        /\ Cardinality(LedQueriesInFlight) <= Cardinality(AssertedGroups)
        /\ (hhistory.groups # <<>> /\ AssertedGroups = {}) =>
               /\ LedQueriesInFlight = {}
               /\ "IndicatorLED" \in DOMAIN hres.jsonValue
               /\ hres.jsonValue["IndicatorLED"] = "Off"
        /\ hres.ended >= 1 => (LedQueriesInFlight = {} /\ ~LedGroupQueryInFlight)

\* the group query returned an asserted group, the second stage returned
\* "Lit", and the response was finalized after it
C32_Witness ==
    /\ SystemsGetRunning
    /\ hres.ended = 1
    /\ AssertedGroups # {}
    /\ "IndicatorLED" \in DOMAIN hres.jsonValue
    /\ hres.jsonValue["IndicatorLED"] = "Lit"

----------------------------------------------------------------------------
(* Properties of doBMCGracefulRestart (PostSpec)                            *)

GracefulRestartRunning ==
    /\ hreq.handler = "ManagerActionsReset::doPost"
    /\ hreq.body.valid
    /\ hreq.body.items = <<<<"ResetType", Str("GracefulRestart")>>>>

GetAllInFlight == \E c \in hcalls : c.name = "GetAll State.BMC"
SetInFlight == \E c \in hcalls : c.name = "Set RequestedBMCTransition"

\* C33: in a Manager.Reset GracefulRestart the Set of RequestedBMCTransition
\* is in flight only after the GetAll succeeded and returned that property;
\* after a failed GetAll the status is internal server error, after a GetAll
\* without the property it is not found, and in both cases no Set is issued;
\* the response is finalized only after every call issued has returned.
C33_SetOnlyAfterGetAllFoundProperty ==
    GracefulRestartRunning =>
        /\ SetInFlight =>
              /\ ~GetAllInFlight
              /\ hhistory.properties = "RequestedBMCTransition"
              /\ hres.code = "ok"
        /\ (~GetAllInFlight /\ hhistory.properties = "") =>
              (hres.code = "internal_server_error" /\ ~SetInFlight)
        /\ (hhistory.properties \notin {"", "RequestedBMCTransition"}) =>
              (hres.code = "not_found" /\ ~SetInFlight)
        /\ hres.ended >= 1 => hcalls = {}
        /\ hres.ended <= 1

\* the GetAll returned the property, the Set was issued and returned, and the
\* response was finalized
C33_Witness ==
    /\ GracefulRestartRunning
    /\ hhistory.properties = "RequestedBMCTransition"
    /\ hres.code = "ok"
    /\ ~hfailed
    /\ hcalls = {}
    /\ hres.ended = 1

----------------------------------------------------------------------------
(* Properties of the UploadService (UploadSpec)                             *)

\* C34: for every UploadService POST, whether the timer was cancelled in time
\* or had expired when cancel was called, the response is finalized exactly
\* once and the timer handler never touches it after it was finalized; and
\* fileUpload is true once the upload has completed.
C34_UploadFinalizedOnceAndUntouched ==
    /\ \A k \in 1..upload.arrived : upload.res[k].ended = 1
    /\ upload.late = {}
    /\ upload.fileUpload

----------------------------------------------------------------------------
(* Properties of the functions called on their own (CalcSpec)               *)

CalcReturned(fn) == calc.fn = fn /\ calc.stage = "returned"

\* the class the claim gives the event-type byte
DocumentedEventType(byte) ==
    IF byte % 128 = 1 THEN "Threshold"
    ELSE IF byte % 128 >= 2 /\ byte % 128 <= 12 THEN "Discrete"
    ELSE IF byte % 128 = 111 THEN "Sensor-specific"
    ELSE "OEM"

\* C36: getEventDirType classifies the event-type byte as documented: 0x01
\* Threshold, 0x02 to 0x0C Discrete, 0x6F Sensor-specific, every other value
\* OEM, after "Deassertion" when bit 7 of the byte is set and "Assertion"
\* otherwise.
C36_EventTypeAsDocumented ==
    CalcReturned("getEventDirType") =>
        calc.result.ret = <<IF calc.arg.data >= 128 THEN "Deassertion" ELSE "Assertion",
                            DocumentedEventType(calc.arg.data)>>

\* C37: for every sensor-type byte 0x00 to 0xFF the lookup into the 46-entry
\* sensorTypeList stays within the table, and 0xC0 yields "OEM".
C37_SensorTypeLookupInTable ==
    (CalcReturned("getSELSpecificInfo") /\ calc.arg.field = 0) =>
        /\ ~calc.result.outside
        /\ ~calc.result.crash
        /\ calc.arg.data = 192 => calc.result.ret = <<"OEM">>

\* C39: for every 32-bit PatchVersion s the version string decomposes s as
\* major = s div 65536, minor = (s div 256) mod 256, build = s mod 256 with
\* no overflow in the intermediate arithmetic, and is formatted as
\* MajorVersion.MinorVersion-major.minor.build.
C39_PatchVersionDecomposed ==
    CalcReturned("fwVersion") =>
        /\ ~calc.result.overflow
        /\ calc.result.ret =
              to_string(calc.arg.version[1]) \o <<".">> \o to_string(calc.arg.version[2])
              \o <<"-">> \o to_string(calc.arg.s[1]) \o <<".">>
              \o to_string(calc.arg.s[2] \div 256) \o <<".">>
              \o to_string(calc.arg.s[2] % 256)

----------------------------------------------------------------------------
(* Properties of LogEntry::doGet (LogSpec)                                  *)

\* the request was answered from a reply without error code
LogEntryAnswered ==
    /\ hreq.handler = "LogEntry::doGet"
    /\ hhistory.replied
    /\ ~hcrashed
    /\ HandlerFinalized

\* the objects of the reply that are log entries with the id asked for
MatchingEntries ==
    {k \in 1..Len(hhistory.entries) :
        LET e == hhistory.entries[k]
        IN  /\ e.interface = LoggingEntry
            /\ "Id" \in DOMAIN e.props
            /\ e.props["Id"].t = "uint32"
            /\ to_string(e.props["Id"].v) = hreq.params[1]}

LogFields == {"Created", "Severity", "Message", "MessageId", "SensorType", "SensorNumber"}

\* what the properties of one entry alone give the fields of a response
FromEntry(e) ==
    {st.json : st \in PropertyLoop([json |-> EmptyObject, idFound |-> FALSE,
                                    crash |-> FALSE],
                                   hreq.params[1], e.props, 1)}

\* C35: a LogEntry GET whose id matches no entry of the reply finalizes with
\* not_found and a cleared body; when an entry matches, every log field of
\* the response (Created, Severity, Message, MessageId, SensorType,
\* SensorNumber) comes from the matching entry and none from another entry.
C35_LogFieldsFromMatchingEntry ==
    LogEntryAnswered =>
        IF MatchingEntries = {}
        THEN hres.code = "not_found" /\ hres.jsonValue = EmptyObject
        ELSE \E k \in MatchingEntries : \E j \in FromEntry(hhistory.entries[k]) :
                 \A f \in LogFields \cap DOMAIN hres.jsonValue :
                     f \in DOMAIN j /\ j[f] = hres.jsonValue[f]

----------------------------------------------------------------------------
(* Properties of the build that asks the EntityManager (EntitySpec)         *)

\* the reply of the EntityManager the request got, if it got one
EntityManagerAnswered(r) ==
    delivered[r] # <<>> /\ delivered[r][1].call = "EntityManager"

\* no object of the reply has the chassis id as the component before the last
NoChassisMatches(r) ==
    LET resp == delivered[r][1].resp
    IN  \A i \in 1..Len(resp) :
            \/ Len(Split(resp[i])) < 2
            \/ Split(resp[i])[Len(Split(resp[i])) - 1] # req[r].params[1]

SensorQueries(r) ==
    {i \in 1..Len(delivered[r]) : delivered[r][i].call \in {"GetSubTree", "GetManagedObjects"}}

\* C38: in the EntityManager discovery mode, if no managed object's chassis
\* segment equals the requested chassis id, the status is not_found, no
\* GetSubTree and no GetManagedObjects sensor query is issued, and the
\* response is finalized exactly once; if the EntityManager call fails, the
\* response is an internal server error with an empty body.
C38_NoChassisIsNotFound ==
    \A r \in SoloRequests :
        EntityManagerAnswered(r) =>
            /\ (delivered[r][1].ec = 0 /\ NoChassisMatches(r)) =>
                   /\ res[r].code = "not_found"
                   /\ pending[r] = <<>>
                   /\ SensorQueries(r) = {}
                   /\ res[r].ended = 1
            /\ delivered[r][1].ec # 0 =>
                   /\ res[r].code = "internal_server_error"
                   /\ res[r].jsonValue = EmptyObject
                   /\ pending[r] = <<>>
                   /\ SensorQueries(r) = {}
                   /\ res[r].ended = 1

\* the EntityManager answered with objects of another chassis only
C38_Witness ==
    \E r \in SoloRequests :
        /\ EntityManagerAnswered(r)
        /\ delivered[r][1].ec = 0
        /\ delivered[r][1].resp # <<>>
        /\ NoChassisMatches(r)
        /\ res[r].code = "not_found"
        /\ res[r].ended = 1

====
